---------------------------- MODULE Spec2Model ----------------------------
(***************************************************************************)
(* Model of the streaming image writers of simserver-imager:               *)
(*   - VsiExtractThread (src/src/vsiextractthread.cpp): the VSI codec,     *)
(*     specification Spec;                                                 *)
(*   - DownloadArchiveExtractThread                                        *)
(*     (src/src/downloadarchiveextractthread.cpp): the two-stage archive   *)
(*     pipeline over the write ring buffer, specification SpecArchive;     *)
(*   - ArchiveEntryExtractThread (src/src/archiveentryextractthread.cpp):  *)
(*     the raw archive-entry writer, specification SpecEntry.              *)
(* Byte strings that can be megabytes long (the accumulation buffer, the   *)
(* bytes on the device) are kept run-length encoded: a sequence of         *)
(* <<byte, count>> runs in which neighbouring runs differ in their byte.   *)
(***************************************************************************)
EXTENDS Integers, Sequences, FiniteSets, TLC

VARIABLES
    pc,                  \* position of the worker thread in its run
    cancelled,           \* DownloadThread::_cancelled
    userCancel,          \* history: cancellation was requested from outside
    outcomes,            \* signals emitted so far: "success" or an error text
    file,                \* compressed payload of the VSI file (after the header)
    filePos,             \* read position of _localFile in the payload
    header,              \* VsiHeader _header (with the number of bytes read)
    zlibInitialized,     \* _zlibInitialized
    finished,            \* local `finished` of extractVsiLocalRun
    compressedRead,      \* bytes folded into payloadHash so far
    zin,                 \* _zstream.next_in/avail_in: unconsumed input
    zpend,               \* inflate's decoded bytes not yet output
    zret,                \* `ret` of the last inflate call
    availOut,            \* _zstream.avail_out after the last inflate call
    data,                \* `data`/`len` of the running _processDecompressedData
    offset,              \* `offset` of the running _processDecompressedData
    pendingData,         \* _pendingData
    expectingDelimiter,  \* _expectingDelimiter
    bytesInCurrentBlock, \* _bytesInCurrentBlock
    writeBuffer,         \* contents of _writeBuffer (run-length encoded)
    writeBufferUsed,     \* _writeBufferUsed
    writeBufferCapacity, \* _writeBufferCapacity
    totalBytesWritten,   \* _totalBytesWritten
    deviceData,          \* bytes accepted by _writeFile (run-length encoded)
    plainFed,            \* history: every byte passed to _processDecompressedData
    splitInBlock,        \* history: where in a data block calls have begun
    entries,             \* the outer container: entries in iteration order
    targetEntry,         \* DownloadArchiveExtractThread::_targetEntry
    entryIdx,            \* entries iterated so far by archive_read_next_header
    found,               \* local `found` of extractImageRun
    entryName,           \* name of the entry being streamed
    entrySize,           \* its declared size (archive_entry_size)
    streamLen,           \* bytes the decoder of the entry can deliver
    produced,            \* bytes the decoder has delivered so far
    innerArchive,        \* inner decoder handle: "none", "open" or "freed"
    slotCapacity,        \* RingBuffer::Slot::capacity
    slots,               \* the write ring buffer: state, chunk and length per slot
    poolCancelled,       \* the ring buffer's cancellation flag
    producerStalls,      \* the ring buffer's producer-stall counter
    slot,                \* local `slot` of the streaming loop (0: null)
    size,                \* local `size` of the streaming loop
    chunkNo,             \* history: chunks delivered by the decoder so far
    writeLog,            \* history: the _writeFile calls, in call order
    completedOutOfOrder, \* history: a callback ran after that of a later chunk
    pending,             \* DeviceWriter: accepted writes whose callback is due
    endOfStream,         \* history: how the streaming loop was left
    devArchive,          \* ArchiveEntryIODevice::_archive is not null
    devEntryFound,       \* ArchiveEntryIODevice::_entryFound
    devAtEnd,            \* ArchiveEntryIODevice::_atEnd
    devEntrySize,        \* ArchiveEntryIODevice::_entrySize
    devBytesRead,        \* ArchiveEntryIODevice::_bytesRead
    devOp,               \* history: the last call made on the device
    devMaxlen,           \* history: the maxlen of the last readData call
    devResult,           \* what that call returned
    devLibError,         \* history: archive_read_data failed in that call
    dtor,                \* position of the session's destructor in the owner's thread
    dtorFreed,           \* what the owner's thread has closed, freed or reset so far
    isLocal,             \* local `isLocal` of VsiExtractThread::run
    spuPc,               \* position of SPUCopyThread::run
    spuSkipFormat,       \* SPUCopyThread::_skipFormat
    spuSource,           \* _isArtifactStreaming, _isUrlDownload, _isDirectFile
    spuCancelled,        \* SPUCopyThread::_cancelled
    spuCopySuccess,      \* local `copySuccess` of SPUCopyThread::run
    spuLog,              \* history: format, mount, copy and unmount calls
    spuSignals,          \* history: success() and error() signals emitted
    copyBuffer,          \* history: new[] and delete[] of extractAndCopy's `buffer`
    clientId,            \* GitHubAuth::_clientId
    authState,           \* GitHubAuth::_state
    deviceCode,          \* GitHubAuth::_deviceCode
    accessToken,         \* GitHubAuth::_accessToken
    storedToken,         \* the token kept in QSettings
    errorMessage,        \* GitHubAuth::_errorMessage
    pollTimer,           \* GitHubAuth::_pollTimer is active
    deviceReplies,       \* device-code requests whose reply has not arrived
    tokenReplies,        \* token-poll requests whose reply has not arrived
    authCancelled,       \* history: cancelAuth() was the last entry point called
    pollPc,              \* position of DriveListModelPollThread::run
    scanMode,            \* DriveListModelPollThread::_scanMode
    refreshRequested,    \* DriveListModelPollThread::_refreshRequested
    terminate,           \* DriveListModelPollThread::_terminate
    currentMode,         \* local `currentMode` of run()
    needsRefresh,        \* local `needsRefresh` of run()
    sleepLeft,           \* seconds left of the sleep loop (sleepSeconds - i)
    scans,               \* history: number of scans started, up to MaxScans
    refreshOutstanding,  \* history: refreshNow() was called and no scan has started since
    githubRepos,         \* RepositoryManager::_githubRepos: the enabled repositories
    refreshStarted,      \* history: refreshAllSources() was called
    isLoading,           \* RepositoryManager::_isLoading
    pendingRefreshCount, \* RepositoryManager::_pendingRefreshCount
    pendingBranchFetchCount, \* RepositoryManager::_pendingBranchFetchCount
    pendingRequests,     \* requests whose reply has not arrived (CDN and GitHubClient::_pendingRequests)
    artifactSearchStates,\* GitHubClient::_artifactSearchStates: pendingRuns per repository
    delivered,           \* history: requests of the refresh that delivered a result or an error
    osListReady,         \* history: number of osListReady signals emitted
    cachedZip,           \* the artifact's ZIP in the cache directory
    activeInspectionReply,        \* GitHubClient::_activeInspectionReply
    activeInspectionFile,         \* GitHubClient::_activeInspectionFile is open
    activeInspectionBytesWritten, \* GitHubClient::_activeInspectionBytesWritten
    partialArtifactDownload,      \* _partialArtifactDownload: isValid, bytesDownloaded
    inspections,         \* history: number of inspections started
    inspectionSignals,   \* history: signals emitted for the last inspection
    inspectionCancelled  \* history: cancelArtifactInspection() acted on the inspection

vsiVars == <<file, filePos, header, zlibInitialized, finished, compressedRead,
             zin, zpend, zret, availOut, data, offset, pendingData,
             expectingDelimiter, bytesInCurrentBlock, writeBuffer,
             writeBufferUsed, writeBufferCapacity, totalBytesWritten,
             deviceData, plainFed, splitInBlock>>

arcVars == <<entries, targetEntry, entryIdx, found, entryName, entrySize,
             streamLen, produced, innerArchive, slotCapacity, slots,
             poolCancelled, producerStalls, slot, size, chunkNo, writeLog,
             completedOutOfOrder, pending, endOfStream>>

\* ArchiveEntryIODevice: _archive is set, _entryFound, _atEnd, _entrySize,
\* _bytesRead; the last call made on the device, what readData returned and
\* whether archive_read_data failed in it
devVars == <<devArchive, devEntryFound, devAtEnd, devEntrySize, devBytesRead,
             devOp, devMaxlen, devResult, devLibError>>

dtorVars == <<dtor, dtorFreed>>

spuVars == <<spuPc, spuSkipFormat, spuSource, spuCancelled, spuCopySuccess, spuLog,
             spuSignals, copyBuffer>>

authVars == <<clientId, authState, deviceCode, accessToken, storedToken,
              errorMessage, pollTimer, deviceReplies, tokenReplies,
              authCancelled>>

pollVars == <<pollPc, scanMode, refreshRequested, terminate, currentMode,
              needsRefresh, sleepLeft, scans, refreshOutstanding>>

repoVars == <<githubRepos, refreshStarted, isLoading, pendingRefreshCount,
              pendingBranchFetchCount, pendingRequests, artifactSearchStates, delivered, osListReady>>

inspVars == <<cachedZip, activeInspectionReply, activeInspectionFile,
              activeInspectionBytesWritten, partialArtifactDownload,
              inspections, inspectionSignals, inspectionCancelled>>

appVars == <<authVars, pollVars, repoVars, inspVars>>

otherVars == <<devVars, dtorVars, isLocal, spuVars, appVars>>

vars == <<pc, cancelled, userCancel, outcomes, vsiVars, arcVars, otherVars>>

-----------------------------------------------------------------------------
(* Bounds of the model *)

\* Longest compressed payload, in compressed bytes.
MaxTokens == 3

\* Largest declared image size, in blocks.
MaxBlocks == 2

\* Slots of the write ring buffer.
NumSlots == 2

\* Chunks a decoder delivers at most before its stream ends or breaks.
MaxChunks == 3

\* Largest size of a container entry read through ArchiveEntryIODevice, and
\* largest length asked of one read, in bytes.
MaxEntrySize == 4

\* Cap of the ring buffer's stall counter.
MaxStalls == 1

\* _inputBufferSize, in compressed bytes (SystemMemoryManager is not in src/).
InputBufSize == 1

-----------------------------------------------------------------------------
(* Program constants *)

VSI_HEADER_SIZE == 128

PAGE_ALIGNMENT == 4096

MiB == 1024 * 1024

MaxBlockSize == 64 * 1024 * 1024

Min(a, b) == IF a < b THEN a ELSE b

-----------------------------------------------------------------------------
(* Run-length encoded byte strings *)

RAppend(r, b, n) ==
    IF n = 0 THEN r
    ELSE IF r # <<>> /\ r[Len(r)][1] = b
         THEN [r EXCEPT ![Len(r)] = <<b, @[2] + n>>]
         ELSE Append(r, <<b, n>>)

RECURSIVE RAppendBytes(_, _)
RAppendBytes(r, s) ==
    IF s = <<>> THEN r ELSE RAppendBytes(RAppend(r, Head(s), 1), Tail(s))

RECURSIVE RCat(_, _)
RCat(r1, r2) ==
    IF r2 = <<>> THEN r1
    ELSE RCat(RAppend(r1, Head(r2)[1], Head(r2)[2]), Tail(r2))

RECURSIVE RLen(_)
RLen(r) == IF r = <<>> THEN 0 ELSE Head(r)[2] + RLen(Tail(r))

Take(s, n) == SubSeq(s, 1, Min(n, Len(s)))

Drop(s, n) == SubSeq(s, Min(n, Len(s)) + 1, Len(s))


-----------------------------------------------------------------------------
(* The VSI file: header and compressed payload *)

\* A compressed byte of the payload. The deflate stream is abstracted to
\* what inflate does with it: <<"run", b, n>> decodes to n bytes b,
\* <<"end", 0, 0>> is the end-of-stream marker, <<"bad", 0, 0>> is corrupt.
Tokens == { <<"run", 0, 1>>, <<"run", 0, 3>>, <<"run", 1, 1>>, <<"run", 1, 2>>,
            <<"run", 2, 1>>, <<"end", 0, 0>>, <<"bad", 0, 0>> }

RECURSIVE SeqsUpTo(_, _)
SeqsUpTo(S, n) ==
    IF n = 0 THEN { <<>> }
    ELSE LET shorter == SeqsUpTo(S, n - 1)
         IN  shorter \cup { Append(s, x) : s \in shorter, x \in S }

Payloads == SeqsUpTo(Tokens, MaxTokens)

RECURSIVE Repeat(_, _)
Repeat(b, n) == IF n = 0 THEN <<>> ELSE <<b>> \o Repeat(b, n - 1)

\* QCryptographicHash::Md5 over the bytes added: collision free.
MD5(bytes) == [digest |-> bytes]

CorruptMd5 == [digest |-> << <<"corrupt", 0, 0>> >>]

ZeroHeader ==
    [readLen |-> 0, magic |-> "", blockSize |-> 0, uncompressedSize |-> 0,
     md5 |-> [digest |-> << <<"zero", 0, 0>> >>]]

BlockSizes == {1, 2, 3 * MiB, MaxBlockSize}

\* Declared sizes: whole numbers of blocks, and one size that is not.
UncompressedSizes(bs) == { k * bs : k \in 1..MaxBlocks } \cup {1}

ValidHeaders(f) ==
    UNION { { [readLen |-> VSI_HEADER_SIZE, magic |-> "VSI1", blockSize |-> bs,
               uncompressedSize |-> us, md5 |-> m] :
                us \in UncompressedSizes(bs), m \in {MD5(f), CorruptMd5} } :
            bs \in BlockSizes }

InvalidHeaders(f) ==
    { [readLen |-> 127, magic |-> "VSI1", blockSize |-> 1, uncompressedSize |-> 1,
       md5 |-> MD5(f)],
      [readLen |-> VSI_HEADER_SIZE, magic |-> "VSI2", blockSize |-> 1,
       uncompressedSize |-> 1, md5 |-> MD5(f)],
      [readLen |-> VSI_HEADER_SIZE, magic |-> "VSI1", blockSize |-> 0,
       uncompressedSize |-> 1, md5 |-> MD5(f)],
      [readLen |-> VSI_HEADER_SIZE, magic |-> "VSI1", blockSize |-> -1,
       uncompressedSize |-> 1, md5 |-> MD5(f)],
      [readLen |-> VSI_HEADER_SIZE, magic |-> "VSI1", blockSize |-> MaxBlockSize + 1,
       uncompressedSize |-> 1, md5 |-> MD5(f)],
      [readLen |-> VSI_HEADER_SIZE, magic |-> "VSI1", blockSize |-> 1,
       uncompressedSize |-> 0, md5 |-> MD5(f)] }

\* VsiExtractThread::parseVsiHeader(QIODevice*, VsiHeader&)
\* A header check with no upper limit on the block size.
parseVsiHeader_noUpperLimit(h) ==
    IF h.readLen # VSI_HEADER_SIZE THEN FALSE
    ELSE IF h.magic # "VSI1" THEN FALSE
    ELSE IF h.blockSize <= 0 THEN FALSE
    ELSE IF h.uncompressedSize <= 0 THEN FALSE
    ELSE TRUE

parseVsiHeader(h) ==
    IF h.readLen # VSI_HEADER_SIZE THEN FALSE
    ELSE IF h.magic # "VSI1" THEN FALSE
    ELSE IF h.blockSize <= 0 \/ h.blockSize > 64 * 1024 * 1024 THEN FALSE
    ELSE IF h.uncompressedSize <= 0 THEN FALSE
    ELSE TRUE

-----------------------------------------------------------------------------
(* zlib's inflate, as the loop of extractVsiLocalRun uses it *)

\* One call of inflate: decodes input `in` (after the pending decoded bytes
\* `pend`) into an output buffer of `cap` bytes until the output is full, the
\* input is used up, the stream ends or a corrupt byte is met.
RECURSIVE inflate(_, _, _, _)
inflate(in, pend, out, cap) ==
    IF pend # <<>>
    THEN IF Len(out) = cap
         THEN [zin |-> in, zpend |-> pend, out |-> out, ret |-> "Z_OK"]
         ELSE LET k == Min(Len(pend), cap - Len(out))
              IN  inflate(in, Drop(pend, k), out \o Take(pend, k), cap)
    ELSE IF in = <<>>
    THEN [zin |-> in, zpend |-> pend, out |-> out,
          ret |-> IF out = <<>> THEN "Z_BUF_ERROR" ELSE "Z_OK"]
    ELSE LET t == Head(in)
         IN  IF t[1] = "end"
             THEN [zin |-> Tail(in), zpend |-> pend, out |-> out,
                   ret |-> "Z_STREAM_END"]
             ELSE IF t[1] = "bad"
             THEN [zin |-> in, zpend |-> pend, out |-> out, ret |-> "Z_DATA_ERROR"]
             ELSE inflate(Tail(in), Repeat(t[2], t[3]), out, cap)

\* decompBufSize = _header.blockSize * 4
decompBufSize == header.blockSize * 4

-----------------------------------------------------------------------------
(* The accumulation buffer and the block parser, on a record of the fields   *)
(* _processDecompressedData reads and writes                                 *)

ParserState ==
    [offset |-> offset, expectingDelimiter |-> expectingDelimiter,
     bytesInCurrentBlock |-> bytesInCurrentBlock, writeBuffer |-> writeBuffer,
     writeBufferUsed |-> writeBufferUsed, totalBytesWritten |-> totalBytesWritten,
     deviceData |-> deviceData, status |-> "run", overflow |-> FALSE]

\* A flush that takes a short write for a complete one.
flushWriteBuffer_ignoresShortWrite(p, wok) ==
    IF p.writeBufferUsed = 0 THEN p
    ELSE [p EXCEPT !.deviceData = IF wok THEN RCat(@, p.writeBuffer) ELSE @,
                   !.writeBuffer = <<>>,
                   !.writeBufferUsed = 0]

\* VsiExtractThread::_flushWriteBuffer; wok: _writeFile wrote every byte.
\* status "flushfail" is its `return false`.
flushWriteBuffer(p, wok) ==
    IF p.writeBufferUsed = 0 THEN p
    ELSE IF ~wok THEN [p EXCEPT !.status = "flushfail"]
    ELSE [p EXCEPT !.deviceData = RCat(@, p.writeBuffer),
                   !.writeBuffer = <<>>,
                   !.writeBufferUsed = 0]

\* VsiExtractThread::_appendToWriteBuffer: memcpy of len bytes (given run-length
\* encoded) to _writeBuffer + _writeBufferUsed. A copy that ends beyond the
\* allocation is recorded in `overflow`.
appendToWriteBuffer(p, runs, len, cap) ==
    [p EXCEPT !.writeBuffer = RCat(@, runs),
              !.writeBufferUsed = @ + len,
              !.overflow = @ \/ (p.writeBufferUsed + len > cap)]

\* The flush `if (_writeBufferUsed + n > _writeBufferCapacity)` before an append.
flushIfNeeded(p, n, cap, wok) ==
    IF p.writeBufferUsed + n > cap THEN flushWriteBuffer(p, wok) ELSE p

\* processIter with the zero fill taken as _zeroBlockSize bytes (the size of
\* the page-aligned allocation) instead of _header.blockSize.
processIter_zeroBlockSize(p, d, bs, cap, wok) ==
    LET zbs == ((bs + PAGE_ALIGNMENT - 1) \div PAGE_ALIGNMENT) * PAGE_ALIGNMENT
    IN
    IF p.expectingDelimiter
    THEN LET delim == d[p.offset + 1]
             q == [p EXCEPT !.offset = @ + 1]
         IN  IF delim = 0
             THEN LET f == flushIfNeeded(q, bs, cap, wok)
                  IN  IF f.status = "flushfail" THEN f
                      ELSE [appendToWriteBuffer(f, << <<0, zbs>> >>, zbs, cap)
                                EXCEPT !.totalBytesWritten = @ + bs]
             ELSE IF delim = 1
             THEN [q EXCEPT !.expectingDelimiter = FALSE,
                            !.bytesInCurrentBlock = 0]
             ELSE [q EXCEPT !.status = "baddelim"]
    ELSE LET remaining == bs - p.bytesInCurrentBlock
             available == Len(d) - p.offset
             toAppend == Min(remaining, available)
             f == flushIfNeeded(p, toAppend, cap, wok)
         IN  IF f.status = "flushfail" THEN f
             ELSE LET bytes == SubSeq(d, p.offset + 1, p.offset + toAppend)
                      a == appendToWriteBuffer(f, RAppendBytes(<<>>, bytes),
                                               toAppend, cap)
                      done == a.bytesInCurrentBlock + toAppend = bs
                  IN  [a EXCEPT !.offset = @ + toAppend,
                                !.bytesInCurrentBlock =
                                    IF done THEN 0 ELSE @ + toAppend,
                                !.totalBytesWritten = @ + toAppend,
                                !.expectingDelimiter = done]

\* processIter with the block position forgotten between calls: `remaining`
\* counts from the start of the call, not from _bytesInCurrentBlock.
processIter_noCarry(p, d, bs, cap, wok) ==
    IF p.expectingDelimiter
    THEN LET delim == d[p.offset + 1]
             q == [p EXCEPT !.offset = @ + 1]
         IN  IF delim = 0
             THEN LET f == flushIfNeeded(q, bs, cap, wok)
                  IN  IF f.status = "flushfail" THEN f
                      ELSE [appendToWriteBuffer(f, << <<0, bs>> >>, bs, cap)
                                EXCEPT !.totalBytesWritten = @ + bs]
             ELSE IF delim = 1
             THEN [q EXCEPT !.expectingDelimiter = FALSE,
                            !.bytesInCurrentBlock = 0]
             ELSE [q EXCEPT !.status = "baddelim"]
    ELSE LET carried == IF p.offset = 0 THEN 0 ELSE p.bytesInCurrentBlock
             remaining == bs - carried
             available == Len(d) - p.offset
             toAppend == Min(remaining, available)
             f == flushIfNeeded(p, toAppend, cap, wok)
         IN  IF f.status = "flushfail" THEN f
             ELSE LET bytes == SubSeq(d, p.offset + 1, p.offset + toAppend)
                      a == appendToWriteBuffer(f, RAppendBytes(<<>>, bytes),
                                               toAppend, cap)
                      done == carried + toAppend = bs
                  IN  [a EXCEPT !.offset = @ + toAppend,
                                !.bytesInCurrentBlock =
                                    IF done THEN 0 ELSE carried + toAppend,
                                !.totalBytesWritten = @ + toAppend,
                                !.expectingDelimiter = done]

\* A parser that takes every delimiter other than 0x00 as the start of a data
\* block.
processIter_anyDelimiter(p, d, bs, cap, wok) ==
    IF p.expectingDelimiter
    THEN LET delim == d[p.offset + 1]
             q == [p EXCEPT !.offset = @ + 1]
         IN  IF delim = 0
             THEN LET f == flushIfNeeded(q, bs, cap, wok)
                  IN  IF f.status = "flushfail" THEN f
                      ELSE [appendToWriteBuffer(f, << <<0, bs>> >>, bs, cap)
                                EXCEPT !.totalBytesWritten = @ + bs]
             ELSE [q EXCEPT !.expectingDelimiter = FALSE,
                            !.bytesInCurrentBlock = 0]
    ELSE LET remaining == bs - p.bytesInCurrentBlock
             available == Len(d) - p.offset
             toAppend == Min(remaining, available)
             f == flushIfNeeded(p, toAppend, cap, wok)
         IN  IF f.status = "flushfail" THEN f
             ELSE LET bytes == SubSeq(d, p.offset + 1, p.offset + toAppend)
                      a == appendToWriteBuffer(f, RAppendBytes(<<>>, bytes),
                                               toAppend, cap)
                      done == a.bytesInCurrentBlock + toAppend = bs
                  IN  [a EXCEPT !.offset = @ + toAppend,
                                !.bytesInCurrentBlock =
                                    IF done THEN 0 ELSE @ + toAppend,
                                !.totalBytesWritten = @ + toAppend,
                                !.expectingDelimiter = done]

\* One iteration of the while loop of _processDecompressedData over data d
\* with block size bs and buffer capacity cap.
processIter(p, d, bs, cap, wok) ==
    IF p.expectingDelimiter
    THEN LET delim == d[p.offset + 1]
             q == [p EXCEPT !.offset = @ + 1]
         IN  IF delim = 0
             THEN LET f == flushIfNeeded(q, bs, cap, wok)
                  IN  IF f.status = "flushfail" THEN f
                      ELSE [appendToWriteBuffer(f, << <<0, bs>> >>, bs, cap)
                                EXCEPT !.totalBytesWritten = @ + bs]
             ELSE IF delim = 1
             THEN [q EXCEPT !.expectingDelimiter = FALSE,
                            !.bytesInCurrentBlock = 0]
             ELSE [q EXCEPT !.status = "baddelim"]
    ELSE LET remaining == bs - p.bytesInCurrentBlock
             available == Len(d) - p.offset
             toAppend == Min(remaining, available)
             f == flushIfNeeded(p, toAppend, cap, wok)
         IN  IF f.status = "flushfail" THEN f
             ELSE LET bytes == SubSeq(d, p.offset + 1, p.offset + toAppend)
                      a == appendToWriteBuffer(f, RAppendBytes(<<>>, bytes),
                                               toAppend, cap)
                      done == a.bytesInCurrentBlock + toAppend = bs
                  IN  [a EXCEPT !.offset = @ + toAppend,
                                !.bytesInCurrentBlock =
                                    IF done THEN 0 ELSE @ + toAppend,
                                !.totalBytesWritten = @ + toAppend,
                                !.expectingDelimiter = done]

\* Whether the iteration at p calls _writeFile.
iterWrites(p, d, bs, cap) ==
    /\ p.writeBufferUsed > 0
    /\ IF p.expectingDelimiter
       THEN d[p.offset + 1] = 0 /\ p.writeBufferUsed + bs > cap
       ELSE p.writeBufferUsed
              + Min(bs - p.bytesInCurrentBlock, Len(d) - p.offset) > cap


\* The while loop of _processDecompressedData run to its end in one call:
\* no cancellation, every write accepted.
RECURSIVE processAll(_, _, _, _)
processAll(p, d, bs, cap) ==
    IF p.offset < Len(d) /\ p.status = "run"
    THEN processAll(processIter(p, d, bs, cap, TRUE), d, bs, cap)
    ELSE p

\* The parser's fields as the constructor leaves them (lines 24-31).
FreshParser ==
    [offset |-> 0, expectingDelimiter |-> TRUE, bytesInCurrentBlock |-> 0,
     writeBuffer |-> <<>>, writeBufferUsed |-> 0, totalBytesWritten |-> 0,
     deviceData |-> <<>>, status |-> "run", overflow |-> FALSE]

Range(s) == { s[i] : i \in DOMAIN s }

-----------------------------------------------------------------------------
(* DownloadThread members used by the workers (downloadthread.cpp is not in  *)
(* src/). Every caller in src/ follows _onDownloadError by leaving its loop  *)
(* and guards what comes after with `!_cancelled`                            *)
(* (archiveentryextractthread.cpp:108-136): the error is emitted and the     *)
(* session flag is set.                                                      *)

\* DownloadThread::_onDownloadError(msg)
onDownloadError(msg) ==
    /\ cancelled' = TRUE
    /\ outcomes' = Append(outcomes, msg)

\* DownloadThread::_writeComplete(): the write-complete (success) notification
writeComplete ==
    outcomes' = Append(outcomes, "success")

-----------------------------------------------------------------------------
(* VsiExtractThread::extractVsiLocalRun, step by step *)

VsiInit ==
    /\ pc = "open"
    /\ cancelled = FALSE
    /\ userCancel = FALSE
    /\ outcomes = <<>>
    /\ file \in Payloads
    /\ filePos = 0
    /\ header = ZeroHeader
    /\ zlibInitialized = FALSE
    /\ finished = FALSE
    /\ compressedRead = <<>>
    /\ zin = <<>>
    /\ zpend = <<>>
    /\ zret = "Z_OK"
    /\ availOut = 0
    /\ data = <<>>
    /\ offset = 0
    /\ pendingData = <<>>
    /\ expectingDelimiter = TRUE
    /\ bytesInCurrentBlock = 0
    /\ writeBuffer = <<>>
    /\ writeBufferUsed = 0
    /\ writeBufferCapacity = 0
    /\ totalBytesWritten = 0
    /\ deviceData = <<>>
    /\ plainFed = <<>>
    /\ splitInBlock = {}

parserVars == <<data, offset, pendingData, expectingDelimiter,
                bytesInCurrentBlock, writeBuffer, writeBufferUsed,
                totalBytesWritten, deviceData, plainFed, splitInBlock>>

zlibVars == <<zin, zpend, zret, availOut>>

\* lines 196-210: open the file and parse the header
OpenAndParseHeader ==
    /\ pc = "open"
    /\ \/ /\ onDownloadError("Error opening VSI file")
          /\ pc' = "done"
          /\ UNCHANGED header
       \/ \E h \in ValidHeaders(file) \cup InvalidHeaders(file) :
            /\ header' = h
            /\ IF ~parseVsiHeader(h)
               THEN onDownloadError("Invalid VSI file format") /\ pc' = "done"
               ELSE pc' = "prepare" /\ UNCHANGED <<cancelled, outcomes>>
    /\ UNCHANGED <<arcVars, otherVars>>
    /\ UNCHANGED <<userCancel, file, filePos, zlibInitialized, finished,
                   compressedRead, zlibVars, parserVars, writeBufferCapacity>>

\* lines 212-253: _initZlib, the two aligned buffers, the output buffer
Prepare ==
    /\ pc = "prepare"
    /\ \/ /\ onDownloadError("Failed to initialize decompressor")
          /\ pc' = "done"
          /\ UNCHANGED <<zlibInitialized, writeBufferCapacity>>
       \/ /\ onDownloadError("Failed to allocate write buffer")
          /\ pc' = "done"
          /\ zlibInitialized' = FALSE
          /\ writeBufferCapacity' = 8 * 1024 * 1024
       \/ /\ onDownloadError("Failed to allocate zero block")
          /\ pc' = "done"
          /\ zlibInitialized' = FALSE
          /\ writeBufferCapacity' = 8 * 1024 * 1024
       \/ /\ zlibInitialized' = TRUE
          /\ writeBufferCapacity' = 8 * 1024 * 1024
          /\ pc' = "loop"
          /\ UNCHANGED <<cancelled, outcomes>>
    /\ UNCHANGED <<arcVars, otherVars>>
    /\ UNCHANGED <<userCancel, file, filePos, header, finished, compressedRead,
                   zlibVars, parserVars>>

\* lines 255-276: the loop test, the read of the next compressed chunk, the
\* hash update and the inflate input
ReadChunk ==
    /\ pc = "loop"
    /\ IF cancelled \/ finished
       THEN /\ pc' = "flush"
            /\ UNCHANGED <<cancelled, outcomes, filePos, finished,
                           compressedRead, zin>>
       ELSE \/ /\ onDownloadError("Error reading VSI file")
               /\ pc' = "flush"
               /\ UNCHANGED <<filePos, finished, compressedRead, zin>>
            \/ LET chunk == SubSeq(file, filePos + 1,
                                   Min(filePos + InputBufSize, Len(file)))
               IN  /\ finished' = (Len(chunk) = 0)
                   /\ filePos' = filePos + Len(chunk)
                   /\ compressedRead' = compressedRead \o chunk
                   /\ zin' = chunk
                   /\ pc' = "inflate"
                   /\ UNCHANGED <<cancelled, outcomes>>
    /\ UNCHANGED <<arcVars, otherVars>>
    /\ UNCHANGED <<userCancel, file, header, zlibInitialized, zpend, zret,
                   availOut, parserVars, writeBufferCapacity>>

\* lines 279-296: one inflate call and the entry into _processDecompressedData
\* (lines 373-382)
Inflate ==
    /\ pc = "inflate"
    /\ LET z == inflate(zin, zpend, <<>>, decompBufSize)
       IN  /\ zin' = z.zin
           /\ zpend' = z.zpend
           /\ zret' = z.ret
           /\ availOut' = decompBufSize - Len(z.out)
           /\ IF z.ret \in {"Z_STREAM_ERROR", "Z_DATA_ERROR", "Z_MEM_ERROR"}
              THEN /\ onDownloadError("Decompression error")
                   /\ zlibInitialized' = FALSE
                   /\ pc' = "done"
                   /\ UNCHANGED parserVars
              ELSE /\ UNCHANGED <<cancelled, outcomes, zlibInitialized>>
                   /\ IF Len(z.out) > 0
                      THEN /\ data' = pendingData \o z.out
                           /\ offset' = 0
                           /\ plainFed' = plainFed \o z.out
                           /\ splitInBlock' = splitInBlock \cup
                                  IF expectingDelimiter THEN {}
                                  ELSE IF bytesInCurrentBlock = 0
                                  THEN {"after-delimiter"} ELSE {"mid-block"}
                           /\ pc' = "parse"
                           /\ UNCHANGED <<pendingData, expectingDelimiter,
                                          bytesInCurrentBlock, writeBuffer,
                                          writeBufferUsed, totalBytesWritten,
                                          deviceData>>
                      ELSE /\ pc' = "inflated"
                           /\ UNCHANGED parserVars
    /\ UNCHANGED <<arcVars, otherVars>>
    /\ UNCHANGED <<userCancel, file, filePos, header, finished, compressedRead,
                   writeBufferCapacity>>

\* lines 384-436: one iteration of the block parser's loop. A failed flush
\* returns false without a message, an invalid delimiter reports one; the
\* caller (lines 296-300) cleans up and returns. A copy beyond the buffer is
\* undefined: the run goes on over the corrupted heap, or the process dies.
ParseIter ==
    /\ pc = "parse"
    /\ offset < Len(data) /\ ~cancelled
    /\ \E wok \in IF iterWrites(ParserState, data, header.blockSize,
                                writeBufferCapacity)
                  THEN BOOLEAN ELSE {TRUE} :
         LET q == processIter(ParserState, data, header.blockSize,
                              writeBufferCapacity, wok)
         IN  /\ offset' = q.offset
             /\ expectingDelimiter' = q.expectingDelimiter
             /\ bytesInCurrentBlock' = q.bytesInCurrentBlock
             /\ writeBuffer' = q.writeBuffer
             /\ writeBufferUsed' = q.writeBufferUsed
             /\ totalBytesWritten' = q.totalBytesWritten
             /\ deviceData' = q.deviceData
             /\ IF q.status = "baddelim"
                THEN /\ onDownloadError("Invalid VSI data format")
                     /\ zlibInitialized' = FALSE
                     /\ pc' = "done"
                ELSE IF q.status = "flushfail"
                THEN /\ zlibInitialized' = FALSE
                     /\ pc' = "done"
                     /\ UNCHANGED <<cancelled, outcomes>>
                ELSE /\ pc' \in IF q.overflow THEN {"parse", "crashed"}
                                ELSE {"parse"}
                     /\ UNCHANGED <<cancelled, outcomes, zlibInitialized>>
    /\ UNCHANGED <<arcVars, otherVars>>
    /\ UNCHANGED <<userCancel, file, filePos, header, finished, compressedRead,
                   zlibVars, data, pendingData, plainFed, splitInBlock,
                   writeBufferCapacity>>

\* lines 438-450: the loop is left; what was not consumed is kept
ParseReturn ==
    /\ pc = "parse"
    /\ ~(offset < Len(data) /\ ~cancelled)
    /\ pendingData' = SubSeq(data, offset + 1, Len(data))
    /\ pc' = "inflated"
    /\ UNCHANGED <<arcVars, otherVars>>
    /\ UNCHANGED <<cancelled, userCancel, outcomes, file, filePos, header,
                   zlibInitialized, finished, compressedRead, zlibVars, data,
                   offset, expectingDelimiter, bytesInCurrentBlock, writeBuffer,
                   writeBufferUsed, totalBytesWritten, deviceData, plainFed,
                   splitInBlock, writeBufferCapacity>>

\* lines 303-311: end of stream, or another round of the do-while
AfterInflate ==
    /\ pc = "inflated"
    /\ IF zret = "Z_STREAM_END"
       THEN finished' = TRUE /\ pc' = "loop"
       ELSE /\ UNCHANGED finished
            /\ pc' = IF availOut = 0 /\ ~cancelled THEN "inflate" ELSE "loop"
    /\ UNCHANGED <<arcVars, otherVars>>
    /\ UNCHANGED <<cancelled, userCancel, outcomes, file, filePos, header,
                   zlibInitialized, compressedRead, zlibVars, parserVars,
                   writeBufferCapacity>>

\* A run that goes to the verification without the final flush.
FinalFlush_skipped ==
    /\ pc = "flush"
    /\ pc' = "verify"
    /\ zlibInitialized' = FALSE
    /\ UNCHANGED <<arcVars, otherVars>>
    /\ UNCHANGED <<cancelled, outcomes, writeBuffer, writeBufferUsed,
                   deviceData, userCancel, file, filePos, header, finished,
                   compressedRead, zlibVars, data, offset, pendingData,
                   expectingDelimiter, bytesInCurrentBlock, totalBytesWritten,
                   plainFed, splitInBlock, writeBufferCapacity>>

\* lines 314-322: the final flush, then _cleanupZlib
FinalFlush ==
    /\ pc = "flush"
    /\ IF cancelled
       THEN /\ pc' = "verify"
            /\ zlibInitialized' = FALSE
            /\ UNCHANGED <<cancelled, outcomes, writeBuffer, writeBufferUsed,
                           deviceData>>
       ELSE \E wok \in IF writeBufferUsed > 0 THEN BOOLEAN ELSE {TRUE} :
              LET q == flushWriteBuffer(ParserState, wok)
              IN  /\ writeBuffer' = q.writeBuffer
                  /\ writeBufferUsed' = q.writeBufferUsed
                  /\ deviceData' = q.deviceData
                  /\ zlibInitialized' = FALSE
                  /\ IF q.status = "flushfail"
                     THEN /\ onDownloadError("Error writing final data to device")
                          /\ pc' = "done"
                     ELSE /\ pc' = "verify"
                          /\ UNCHANGED <<cancelled, outcomes>>
    /\ UNCHANGED <<arcVars, otherVars>>
    /\ UNCHANGED <<userCancel, file, filePos, header, finished, compressedRead,
                   zlibVars, data, offset, pendingData, expectingDelimiter,
                   bytesInCurrentBlock, totalBytesWritten, plainFed,
                   splitInBlock, writeBufferCapacity>>

\* Verify without the size comparison of lines 343-349.
Verify_noSizeCheck ==
    /\ pc = "verify"
    /\ pc' = "done"
    /\ IF cancelled
       THEN UNCHANGED <<cancelled, outcomes>>
       ELSE IF MD5(compressedRead) # header.md5
       THEN onDownloadError("VSI file checksum verification failed")
       ELSE writeComplete /\ UNCHANGED cancelled
    /\ UNCHANGED <<arcVars, otherVars>>
    /\ UNCHANGED <<userCancel, vsiVars, otherVars>>

\* lines 324-354: the cancellation test, the two integrity checks, success
Verify ==
    /\ pc = "verify"
    /\ pc' = "done"
    /\ IF cancelled
       THEN UNCHANGED <<cancelled, outcomes>>
       ELSE IF MD5(compressedRead) # header.md5
       THEN onDownloadError("VSI file checksum verification failed")
       ELSE IF totalBytesWritten # header.uncompressedSize
       THEN onDownloadError("VSI extraction size mismatch")
       ELSE writeComplete /\ UNCHANGED cancelled
    /\ UNCHANGED <<arcVars, otherVars>>
    /\ UNCHANGED <<userCancel, vsiVars, otherVars>>

\* DownloadThread::cancelDownload(), called from another thread
Cancel ==
    /\ pc \notin {"done", "crashed"}
    /\ ~userCancel
    /\ cancelled' = TRUE
    /\ userCancel' = TRUE
    /\ UNCHANGED <<arcVars, otherVars>>
    /\ UNCHANGED <<pc, outcomes, vsiVars>>

-----------------------------------------------------------------------------
(* Names: QStrings as sequences of one-character strings *)

EndsWith(str, suffix) ==
    /\ Len(str) >= Len(suffix)
    /\ SubSeq(str, Len(str) - Len(suffix) + 1, Len(str)) = suffix

Contains(str, sub) ==
    \E i \in 1..(Len(str) - Len(sub) + 1) : SubSeq(str, i, i + Len(sub) - 1) = sub

\* QString::section('/', -1): what follows the last '/'
LastSection(str) ==
    LET cut == { i \in DOMAIN str : str[i] = "/" }
    IN  IF cut = {} THEN str
        ELSE SubSeq(str, (CHOOSE i \in cut : \A j \in cut : j <= i) + 1, Len(str))

\* QString::toLower on the characters the names use
toLower(str) ==
    [i \in DOMAIN str |->
        CASE str[i] = "W" -> "w" [] str[i] = "I" -> "i" [] str[i] = "C" -> "c"
          [] str[i] = "X" -> "x" [] str[i] = "Z" -> "z" [] OTHER -> str[i]]

Name_readme == <<"r", ".", "t", "x", "t">>

Name_i_wic == <<"i", ".", "w", "i", "c">>

Name_i_wic_xz == <<"i", ".", "w", "i", "c", ".", "x", "z">>

Name_a_i_wic_xz == <<"a", "/">> \o Name_i_wic_xz

Name_a_i_wic == <<"a", "/">> \o Name_i_wic

Name_i_wic_txt == Name_i_wic \o <<".", "t", "x", "t">>

\* DownloadArchiveExtractThread::_isCompressedEntry
isCompressedEntry(name) ==
    LET lower == toLower(name)
    IN  \/ EndsWith(lower, <<".", "x", "z">>)
        \/ EndsWith(lower, <<".", "g", "z">>)
        \/ EndsWith(lower, <<".", "z", "s", "t">>)
        \/ EndsWith(lower, <<".", "b", "z", "2">>)
        \/ EndsWith(lower, <<".", "l", "z", "4">>)

\* A match that takes a requested name by equality alone.
matches_exactOnly(name, target) ==
    IF target # <<>>
    THEN name = target
    ELSE LET lower == toLower(name)
         IN  \/ EndsWith(lower, <<".", "w", "i", "c">>)
             \/ Contains(lower, <<".", "w", "i", "c", ".">>)

\* lines 94-107 of extractImageRun: does the entry match the target?
matches(name, target) ==
    IF target # <<>>
    THEN \/ name = target
         \/ EndsWith(name, <<"/">> \o target)
         \/ LastSection(name) = target
    ELSE LET lower == toLower(name)
         IN  \/ EndsWith(lower, <<".", "w", "i", "c">>)
             \/ Contains(lower, <<".", "w", "i", "c", ".">>)

-----------------------------------------------------------------------------
(* The outer container and the decoders (libarchive) *)

\* Lengths in bytes of the streams a decoder may deliver.
StreamLens == {0, 700, 1024, 1536}

\* A read shorter than the buffer that is not the last of its stream.
ShortReads == {200}

Containers ==
    { << [name |-> Name_readme, size |-> 100],
         [name |-> Name_a_i_wic_xz, size |-> 700] >>,
      << [name |-> Name_readme, size |-> 100] >>,
      << [name |-> Name_a_i_wic, size |-> 0],
         [name |-> Name_i_wic, size |-> 700] >>,
      << [name |-> Name_i_wic_txt, size |-> 100],
         [name |-> Name_i_wic, size |-> 0] >> }
    \cup { << [name |-> Name_i_wic, size |-> n] >> : n \in StreamLens }

Targets == { <<>>, Name_i_wic_xz, Name_i_wic }

\* What archive_read_data may return with `remaining` bytes of the stream
\* left and a buffer of cap bytes: the most it can, or a short read.
ReadSizes(remaining, cap) ==
    IF remaining = 0 THEN {}
    ELSE { Min(remaining, cap) }
         \cup { n \in ShortReads : n < Min(remaining, cap) }

-----------------------------------------------------------------------------
(* The write ring buffer (RingBuffer is not in src/): a fixed pool of slots  *)
(* with acquire/release, and its cancellation flag                           *)

Slots == 1..NumSlots

FreeSlots == { i \in Slots : slots[i].state = "Free" }

\* A pool whose acquire does not look at the cancellation flag.
acquireWriteSlot_ignoresCancel ==
    IF FreeSlots = {} THEN {0} ELSE FreeSlots

\* A pool that hands out a slot whether or not it is Free.
acquireWriteSlot_any ==
    IF poolCancelled THEN {0} ELSE Slots

\* RingBuffer::acquireWriteSlot(timeoutMs): a Free slot, or 0 (null) on
\* cancellation or when the timeout elapses with no slot Free.
acquireWriteSlot ==
    IF poolCancelled \/ FreeSlots = {} THEN {0} ELSE FreeSlots

\* RingBuffer::releaseReadSlot(slot): the slot is Free again.
releaseReadSlot(pool, i) ==
    [pool EXCEPT ![i].state = "Free"]

\* DownloadThread::cancelDownload() as the worker calls it before emit error
cancelDownloadAndError(msg) ==
    /\ cancelled' = TRUE
    /\ outcomes' = Append(outcomes, msg)

\* File::WaitForPendingWrites has returned: no accepted write is outstanding.
NoPendingWrites == pending = {}

-----------------------------------------------------------------------------
(* DownloadArchiveExtractThread::extractImageRun and the two streaming loops *)

VsiIdle ==
    /\ file = <<>>
    /\ filePos = 0
    /\ header = ZeroHeader
    /\ zlibInitialized = FALSE
    /\ finished = FALSE
    /\ compressedRead = <<>>
    /\ zin = <<>>
    /\ zpend = <<>>
    /\ zret = "Z_OK"
    /\ availOut = 0
    /\ data = <<>>
    /\ offset = 0
    /\ pendingData = <<>>
    /\ expectingDelimiter = TRUE
    /\ bytesInCurrentBlock = 0
    /\ writeBuffer = <<>>
    /\ writeBufferUsed = 0
    /\ writeBufferCapacity = 0
    /\ totalBytesWritten = 0
    /\ deviceData = <<>>
    /\ plainFed = <<>>
    /\ splitInBlock = {}

ArcIdle ==
    /\ entries = <<>>
    /\ targetEntry = <<>>
    /\ entryIdx = 0
    /\ found = FALSE
    /\ entryName = <<>>
    /\ entrySize = 0
    /\ streamLen = 0
    /\ produced = 0
    /\ innerArchive = "none"
    /\ slotCapacity = 0
    /\ slots = [i \in Slots |-> [state |-> "Free", chunk |-> 0]]
    /\ poolCancelled = FALSE
    /\ producerStalls = 0
    /\ slot = 0
    /\ size = 0
    /\ chunkNo = 0
    /\ writeLog = <<>>
    /\ completedOutOfOrder = FALSE
    /\ pending = {}
    /\ endOfStream = "none"

\* A device that was constructed and not opened (archiveentryiodevice.h)
DevIdle ==
    /\ devArchive = FALSE
    /\ devEntryFound = FALSE
    /\ devAtEnd = FALSE
    /\ devEntrySize = 0
    /\ devBytesRead = 0
    /\ devOp = "none"
    /\ devMaxlen = 0
    /\ devResult = 0
    /\ devLibError = FALSE

\* No destructor runs
DtorIdle ==
    /\ dtor = "none"
    /\ dtorFreed = {}

\* No SPU copy runs
SpuIdle ==
    /\ spuPc = "none"
    /\ spuSkipFormat = FALSE
    /\ spuSource = "archive"
    /\ spuCancelled = FALSE
    /\ spuCopySuccess = FALSE
    /\ spuLog = <<>>
    /\ spuSignals = <<>>
    /\ copyBuffer = [allocated |-> 0, deleted |-> 0]

\* A GitHubAuth that was constructed and not used (githubauth.h)
AuthIdle ==
    /\ clientId = "id"
    /\ authState = "Idle"
    /\ deviceCode = ""
    /\ accessToken = ""
    /\ storedToken = ""
    /\ errorMessage = ""
    /\ pollTimer = FALSE
    /\ deviceReplies = 0
    /\ tokenReplies = 0
    /\ authCancelled = FALSE

\* No drive poll thread runs
PollIdle ==
    /\ pollPc = "none"
    /\ scanMode = "Normal"
    /\ refreshRequested = FALSE
    /\ terminate = FALSE
    /\ currentMode = "Normal"
    /\ needsRefresh = FALSE
    /\ sleepLeft = 0
    /\ scans = 0
    /\ refreshOutstanding = FALSE

\* A RepositoryManager with no repository and no refresh
RepoIdle ==
    /\ githubRepos = {}
    /\ refreshStarted = FALSE
    /\ isLoading = FALSE
    /\ pendingRefreshCount = 0
    /\ pendingBranchFetchCount = 0
    /\ pendingRequests = {}
    /\ artifactSearchStates = <<>>
    /\ delivered = {}
    /\ osListReady = 0

\* A GitHubClient with no artifact inspection
InspIdle ==
    /\ cachedZip = "none"
    /\ activeInspectionReply = "none"
    /\ activeInspectionFile = FALSE
    /\ activeInspectionBytesWritten = 0
    /\ partialArtifactDownload = [isValid |-> FALSE, bytesDownloaded |-> 0]
    /\ inspections = 0
    /\ inspectionSignals = <<>>
    /\ inspectionCancelled = FALSE

AppIdle == AuthIdle /\ PollIdle /\ RepoIdle /\ InspIdle

OtherIdle == DevIdle /\ DtorIdle /\ isLocal = TRUE /\ SpuIdle /\ AppIdle

ArchiveInit ==
    /\ OtherIdle
    /\ pc = "a:header"
    /\ cancelled = FALSE
    /\ userCancel = FALSE
    /\ outcomes = <<>>
    /\ VsiIdle
    /\ entries \in Containers
    /\ targetEntry \in Targets
    /\ entryIdx = 0
    /\ found = FALSE
    /\ entryName = <<>>
    /\ entrySize = 0
    /\ streamLen = 0
    /\ produced = 0
    /\ innerArchive = "none"
    /\ slotCapacity = 1024
    /\ slots = [i \in Slots |-> [state |-> "Free", chunk |-> 0]]
    /\ poolCancelled = FALSE
    /\ producerStalls = 0
    /\ slot = 0
    /\ size = 0
    /\ chunkNo = 0
    /\ writeLog = <<>>
    /\ completedOutOfOrder = FALSE
    /\ pending = {}
    /\ endOfStream = "none"

poolVars == <<slots, poolCancelled, producerStalls>>

entryVars == <<entries, targetEntry, entryIdx, found, entryName, entrySize,
               streamLen, slotCapacity>>

loopVars == <<slot, size, produced, chunkNo>>

\* lines 85-131: one round of the header loop. archive_read_next_header
\* returns ARCHIVE_OK with the next entry, or something else (the end of the
\* container, or a failure) and the loop is left.
NextHeader ==
    /\ pc = "a:header"
    /\ \/ /\ pc' = "a:after"
          /\ UNCHANGED <<entryIdx, found, entryName, entrySize, streamLen>>
       \/ /\ entryIdx < Len(entries)
          /\ LET e == entries[entryIdx + 1]
             IN  /\ entryIdx' = entryIdx + 1
                 /\ IF cancelled
                    THEN /\ pc' = "a:after"
                         /\ UNCHANGED <<found, entryName, entrySize, streamLen>>
                    ELSE IF matches(e.name, targetEntry)
                    THEN /\ found' = TRUE
                         /\ entryName' = e.name
                         /\ entrySize' = e.size
                         /\ IF isCompressedEntry(e.name)
                            THEN /\ streamLen' \in StreamLens
                                 /\ pc' = "x:open"
                            ELSE /\ streamLen' = e.size
                                 /\ pc' = "s:loop"
                    ELSE /\ pc' = "a:header"
                         /\ UNCHANGED <<found, entryName, entrySize, streamLen>>
    /\ UNCHANGED <<cancelled, userCancel, outcomes, vsiVars, otherVars, entries,
                   targetEntry, slotCapacity, innerArchive, poolVars, loopVars,
                   writeLog, completedOutOfOrder, pending, endOfStream>>

\* lines 186-217: the bridging buffer, the inner decoder and its header
OpenInner ==
    /\ pc = "x:open"
    /\ \/ innerArchive' = "freed" /\ pc' = "x:throw"
       \/ innerArchive' = "open" /\ pc' = "a:catch"
       \/ innerArchive' = "open" /\ pc' = "s:loop"
    /\ UNCHANGED <<cancelled, userCancel, outcomes, vsiVars, otherVars, entryVars,
                   poolVars, loopVars, writeLog, completedOutOfOrder, pending,
                   endOfStream>>

\* line 211: the exception text is built from archive_error_string of the
\* inner handle. Reading a handle that was freed is undefined: the call
\* returns some text or the process crashes.
ThrowOpenFailed ==
    /\ pc = "x:throw"
    /\ pc' \in IF innerArchive = "freed" THEN {"a:catch", "crashed"}
                ELSE {"a:catch"}
    /\ UNCHANGED <<cancelled, userCancel, outcomes, vsiVars, otherVars, entryVars,
                   poolVars, loopVars, innerArchive, writeLog,
                   completedOutOfOrder, pending, endOfStream>>

\* lines 222 and 298: while (!_cancelled)
LoopTest ==
    /\ pc = "s:loop"
    /\ IF cancelled
       THEN pc' = "s:complete" /\ endOfStream' = "cancelled"
       ELSE pc' = "s:acquire" /\ UNCHANGED endOfStream
    /\ UNCHANGED <<cancelled, userCancel, outcomes, vsiVars, otherVars, entryVars,
                   innerArchive, poolVars, loopVars, writeLog, completedOutOfOrder,
                   pending>>

\* A worker whose retry loop does not look at _cancelled.
AcquireSlot_retryWhileCancelled ==
    /\ pc = "s:acquire"
    /\ \E r \in acquireWriteSlot :
         IF r # 0
         THEN /\ slot' = r
              /\ slots' = [slots EXCEPT ![r].state = "Acquired"]
              /\ pc' = "s:read"
              /\ UNCHANGED <<producerStalls, endOfStream>>
         ELSE /\ slot' = 0
              /\ UNCHANGED slots
              /\ producerStalls' = Min(producerStalls + 1, MaxStalls)
              /\ IF ~poolCancelled
                 THEN pc' = "s:acquire" /\ UNCHANGED endOfStream
                 ELSE IF cancelled
                 THEN pc' = "s:complete" /\ endOfStream' = "cancelled"
                 ELSE pc' = "a:catch" /\ UNCHANGED endOfStream
    /\ UNCHANGED <<cancelled, userCancel, outcomes, vsiVars, otherVars, entryVars,
                   innerArchive, poolCancelled, size, produced, chunkNo,
                   writeLog, completedOutOfOrder, pending>>

\* A worker that takes the first null from acquireWriteSlot as a failure.
AcquireSlot_timeoutFatal ==
    /\ pc = "s:acquire"
    /\ \E r \in acquireWriteSlot :
         IF r # 0
         THEN /\ slot' = r
              /\ slots' = [slots EXCEPT ![r].state = "Acquired"]
              /\ pc' = "s:read"
              /\ UNCHANGED <<producerStalls, endOfStream>>
         ELSE /\ slot' = 0
              /\ UNCHANGED slots
              /\ producerStalls' = Min(producerStalls + 1, MaxStalls)
              /\ IF cancelled
                 THEN pc' = "s:complete" /\ endOfStream' = "cancelled"
                 ELSE pc' = "a:catch" /\ UNCHANGED endOfStream
    /\ UNCHANGED <<cancelled, userCancel, outcomes, vsiVars, otherVars, entryVars,
                   innerArchive, poolCancelled, size, produced, chunkNo,
                   writeLog, completedOutOfOrder, pending>>

\* lines 224-233 and 300-309: one acquireWriteSlot(100) call and what follows
\* it: the slot, another round of the retry loop, the break or the throw
AcquireSlot ==
    /\ pc = "s:acquire"
    /\ \E r \in acquireWriteSlot :
         IF r # 0
         THEN /\ slot' = r
              /\ slots' = [slots EXCEPT ![r].state = "Acquired"]
              /\ pc' = "s:read"
              /\ UNCHANGED <<producerStalls, endOfStream>>
         ELSE /\ slot' = 0
              /\ UNCHANGED slots
              /\ producerStalls' = Min(producerStalls + 1, MaxStalls)
              /\ IF ~cancelled /\ ~poolCancelled
                 THEN pc' = "s:acquire" /\ UNCHANGED endOfStream
                 ELSE IF cancelled
                 THEN pc' = "s:complete" /\ endOfStream' = "cancelled"
                 ELSE pc' = "a:catch" /\ UNCHANGED endOfStream
    /\ UNCHANGED <<cancelled, userCancel, outcomes, vsiVars, otherVars, entryVars,
                   innerArchive, poolCancelled, size, produced, chunkNo,
                   writeLog, completedOutOfOrder, pending>>

\* libarchive's ARCHIVE_FATAL, tested at lines 244 and 320
ARCHIVE_FATAL == -30

\* The negative results of archive_read_data: ARCHIVE_FATAL, ARCHIVE_FAILED,
\* ARCHIVE_WARN and ARCHIVE_RETRY
NegativeResults == {ARCHIVE_FATAL, -25, -20, -10}

\* A read step that throws on the no-progress condition as on any other error.
ReadData_noProgressFatal ==
    /\ pc = "s:read"
    /\ \/ /\ chunkNo < MaxChunks
          /\ \E n \in ReadSizes(streamLen - produced, slotCapacity) :
               LET padded == IF n % 512 # 0 THEN n + (512 - (n % 512)) ELSE n
               IN  /\ size' = padded
                   /\ produced' = produced + n
                   /\ chunkNo' = chunkNo + 1
                   /\ slots' = [slots EXCEPT ![slot].chunk = chunkNo + 1]
                   /\ pc' \in IF padded > slotCapacity
                               THEN {"s:write", "crashed"}
                               ELSE {"s:write"}
                   /\ UNCHANGED endOfStream
       \/ /\ produced = streamLen
          /\ size' = 0
          /\ slots' = releaseReadSlot(slots, slot)
          /\ endOfStream' = "eof"
          /\ pc' = "s:complete"
          /\ UNCHANGED <<produced, chunkNo>>
       \/ /\ size' = ARCHIVE_FATAL
          /\ slots' = releaseReadSlot(slots, slot)
          /\ endOfStream' = "noprogress"
          /\ pc' = "a:catch"
          /\ UNCHANGED <<produced, chunkNo>>
       \/ /\ size' \in NegativeResults
          /\ slots' = releaseReadSlot(slots, slot)
          /\ pc' = "a:catch"
          /\ UNCHANGED <<produced, chunkNo, endOfStream>>
    /\ UNCHANGED <<cancelled, userCancel, outcomes, vsiVars, otherVars, entryVars,
                   innerArchive, poolCancelled, producerStalls, slot, writeLog,
                   completedOutOfOrder, pending>>

\* lines 235-262 and 311-338: archive_read_data into the slot, then the end
\* of stream, the no-progress end (ARCHIVE_FATAL with the error string "No
\* progress is possible"), any other negative result, or the padding to 512.
\* A memset that ends beyond the slot is undefined: the run goes on or the
\* process crashes.
ReadData ==
    /\ pc = "s:read"
    /\ \/ /\ chunkNo < MaxChunks
          /\ \E n \in ReadSizes(streamLen - produced, slotCapacity) :
               LET padded == IF n % 512 # 0 THEN n + (512 - (n % 512)) ELSE n
               IN  /\ size' = padded
                   /\ produced' = produced + n
                   /\ chunkNo' = chunkNo + 1
                   /\ slots' = [slots EXCEPT ![slot].chunk = chunkNo + 1]
                   /\ pc' \in IF padded > slotCapacity
                               THEN {"s:write", "crashed"}
                               ELSE {"s:write"}
                   /\ UNCHANGED endOfStream
       \/ /\ produced = streamLen
          /\ size' = 0
          /\ slots' = releaseReadSlot(slots, slot)
          /\ endOfStream' = "eof"
          /\ pc' = "s:complete"
          /\ UNCHANGED <<produced, chunkNo>>
       \/ /\ size' = ARCHIVE_FATAL
          /\ slots' = releaseReadSlot(slots, slot)
          /\ endOfStream' = "noprogress"
          /\ pc' = "s:complete"
          /\ UNCHANGED <<produced, chunkNo>>
       \/ /\ size' \in NegativeResults
          /\ slots' = releaseReadSlot(slots, slot)
          /\ pc' = "a:catch"
          /\ UNCHANGED <<produced, chunkNo, endOfStream>>
    /\ UNCHANGED <<cancelled, userCancel, outcomes, vsiVars, otherVars, entryVars,
                   innerArchive, poolCancelled, producerStalls, slot, writeLog,
                   completedOutOfOrder, pending>>

\* A handoff that gives the slot back to the pool as soon as the write call
\* has returned, instead of leaving that to the callback.
WriteSlot_earlyRelease ==
    /\ pc = "s:write"
    /\ \E accepted \in BOOLEAN :
         /\ writeLog' = Append(writeLog,
                [chunk |-> slots[slot].chunk, len |-> size,
                 accepted |-> accepted])
         /\ IF accepted
            THEN /\ pending' = pending \cup
                        {[slot |-> slot, chunk |-> slots[slot].chunk]}
                 /\ slots' = releaseReadSlot(slots, slot)
                 /\ pc' = "s:loop"
            ELSE /\ UNCHANGED <<pending, slots>>
                 /\ pc' = IF ~cancelled THEN "s:writeerr" ELSE "s:loop"
    /\ UNCHANGED <<cancelled, userCancel, outcomes, vsiVars, otherVars, entryVars,
                   innerArchive, poolCancelled, producerStalls, loopVars,
                   completedOutOfOrder, endOfStream>>

\* A handoff that puts the chunk in front of the ones handed over before it.
WriteSlot_lifo ==
    /\ pc = "s:write"
    /\ \E accepted \in BOOLEAN :
         /\ writeLog' = <<[chunk |-> slots[slot].chunk, len |-> size,
                           accepted |-> accepted]>> \o writeLog
         /\ IF accepted
            THEN /\ pending' = pending \cup
                        {[slot |-> slot, chunk |-> slots[slot].chunk]}
                 /\ pc' = "s:loop"
            ELSE /\ UNCHANGED pending
                 /\ pc' = IF ~cancelled THEN "s:writeerr" ELSE "s:loop"
    /\ UNCHANGED <<cancelled, userCancel, outcomes, vsiVars, otherVars, entryVars,
                   innerArchive, poolVars, loopVars, completedOutOfOrder, endOfStream>>

\* lines 264-284 and 340-358: the release callback bound to the slot and the
\* _writeFile call. An accepted write owes one call of the callback; a
\* rejected one (result 0) never calls it.
WriteSlot ==
    /\ pc = "s:write"
    /\ \E accepted \in BOOLEAN :
         /\ writeLog' = Append(writeLog,
                [chunk |-> slots[slot].chunk, len |-> size,
                 accepted |-> accepted])
         /\ IF accepted
            THEN /\ pending' = pending \cup
                        {[slot |-> slot, chunk |-> slots[slot].chunk]}
                 /\ pc' = "s:loop"
            ELSE /\ UNCHANGED pending
                 /\ pc' = IF ~cancelled THEN "s:writeerr" ELSE "s:loop"
    /\ UNCHANGED <<cancelled, userCancel, outcomes, vsiVars, otherVars, entryVars,
                   innerArchive, poolVars, loopVars, completedOutOfOrder, endOfStream>>

\* lines 276-283 and 352-357: wait for the pending writes, report, return
WriteError ==
    /\ pc = "s:writeerr"
    /\ NoPendingWrites
    /\ cancelDownloadAndError("Error writing file to disk")
    /\ innerArchive' = IF innerArchive = "open" THEN "freed" ELSE innerArchive
    /\ pc' = "a:after"
    /\ UNCHANGED <<userCancel, vsiVars, otherVars, entryVars, poolVars, loopVars, writeLog,
                   completedOutOfOrder, pending, endOfStream>>

\* lines 287-290 and 361: _writeComplete() after the loop
Complete ==
    /\ pc = "s:complete"
    /\ writeComplete
    /\ innerArchive' = IF innerArchive = "open" THEN "freed" ELSE innerArchive
    /\ pc' = "a:after"
    /\ UNCHANGED <<cancelled, userCancel, vsiVars, otherVars, entryVars, poolVars,
                   loopVars, writeLog, completedOutOfOrder, pending, endOfStream>>

\* lines 142-154: the catch block
Catch ==
    /\ pc = "a:catch"
    /\ NoPendingWrites
    /\ IF ~cancelled
       THEN cancelDownloadAndError("Error extracting archive")
       ELSE UNCHANGED <<cancelled, outcomes>>
    /\ pc' = "done"
    /\ UNCHANGED <<userCancel, vsiVars, otherVars, entryVars, innerArchive, poolVars,
                   loopVars, writeLog, completedOutOfOrder, pending, endOfStream>>

\* lines 133-140 and 156: after the header loop
AfterLoop ==
    /\ pc = "a:after"
    /\ IF ~found /\ ~cancelled
       THEN cancelDownloadAndError(IF targetEntry = <<>>
                                   THEN "No WIC image found in archive"
                                   ELSE "Entry not found in archive")
       ELSE UNCHANGED <<cancelled, outcomes>>
    /\ pc' = "done"
    /\ UNCHANGED <<userCancel, vsiVars, otherVars, entryVars, innerArchive, poolVars,
                   loopVars, writeLog, completedOutOfOrder, pending, endOfStream>>

\* The chunks whose write was accepted and whose callback has run.
CompletedChunks ==
    { writeLog[k].chunk : k \in { j \in DOMAIN writeLog : writeLog[j].accepted } }
        \ { w.chunk : w \in pending }

\* The release callback of lines 269-271 and 345-347, run by the DeviceWriter
\* for one accepted write, in any order and on its own thread.
ReleaseCallback ==
    /\ \E w \in pending :
         /\ pending' = pending \ {w}
         /\ slots' = releaseReadSlot(slots, w.slot)
         /\ completedOutOfOrder' =
              (completedOutOfOrder \/ \E k \in CompletedChunks : k > w.chunk)
    /\ UNCHANGED <<pc, cancelled, userCancel, outcomes, vsiVars, otherVars, entryVars,
                   innerArchive, poolCancelled, producerStalls, loopVars,
                   writeLog, endOfStream>>

\* RingBuffer::cancel(), called from another thread
CancelPool ==
    /\ pc # "done"
    /\ ~poolCancelled
    /\ poolCancelled' = TRUE
    /\ UNCHANGED <<pc, cancelled, userCancel, outcomes, vsiVars, otherVars, entryVars,
                   innerArchive, slots, producerStalls, loopVars, writeLog,
                   completedOutOfOrder, pending, endOfStream>>

NextArchive ==
    \/ NextHeader
    \/ OpenInner
    \/ ThrowOpenFailed
    \/ LoopTest
    \/ AcquireSlot
    \/ ReadData
    \/ WriteSlot
    \/ WriteError
    \/ Complete
    \/ Catch
    \/ AfterLoop
    \/ ReleaseCallback
    \/ CancelPool
    \/ Cancel

SpecArchive == ArchiveInit /\ [][NextArchive]_vars

\* The steps of the worker thread that runs extractImageRun
ArchiveWorker ==
    \/ NextHeader
    \/ OpenInner
    \/ ThrowOpenFailed
    \/ LoopTest
    \/ AcquireSlot
    \/ ReadData
    \/ WriteSlot
    \/ WriteError
    \/ Complete
    \/ Catch
    \/ AfterLoop

\* A container that holds a file to skip and a compressed image, taken by
\* suffix: its session goes through every stage of the pipeline.
ArchiveLiveInit ==
    /\ ArchiveInit
    /\ \E e \in DOMAIN entries : isCompressedEntry(entries[e].name)
    /\ targetEntry = <<>>

\* The worker thread keeps running, and the DeviceWriter calls the callback
\* of every write it has accepted.
SpecArchiveLive ==
    /\ ArchiveLiveInit
    /\ [][NextArchive]_vars
    /\ WF_vars(ArchiveWorker)
    /\ WF_vars(ReleaseCallback)

\* Slot capacities a caller may choose: multiples of 512 and one that is not
SlotCapacities == {512, 700, 1024}

\* A session over one image, stored or compressed, with a pool of a chosen
\* capacity
ArchiveCapInit ==
    /\ OtherIdle
    /\ pc = "a:header"
    /\ cancelled = FALSE
    /\ userCancel = FALSE
    /\ outcomes = <<>>
    /\ VsiIdle
    /\ entries \in { << [name |-> Name_i_wic, size |-> 700] >>,
                      << [name |-> Name_a_i_wic_xz, size |-> 700] >> }
    /\ targetEntry = <<>>
    /\ entryIdx = 0
    /\ found = FALSE
    /\ entryName = <<>>
    /\ entrySize = 0
    /\ streamLen = 0
    /\ produced = 0
    /\ innerArchive = "none"
    /\ slotCapacity \in SlotCapacities
    /\ slots = [i \in Slots |-> [state |-> "Free", chunk |-> 0]]
    /\ poolCancelled = FALSE
    /\ producerStalls = 0
    /\ slot = 0
    /\ size = 0
    /\ chunkNo = 0
    /\ writeLog = <<>>
    /\ completedOutOfOrder = FALSE
    /\ pending = {}
    /\ endOfStream = "none"

SpecArchiveCap == ArchiveCapInit /\ [][NextArchive]_vars

Init == VsiInit /\ ArcIdle /\ OtherIdle

Next ==
    \/ OpenAndParseHeader
    \/ Prepare
    \/ ReadChunk
    \/ Inflate
    \/ ParseIter
    \/ ParseReturn
    \/ AfterInflate
    \/ FinalFlush
    \/ Verify
    \/ Cancel

Spec == Init /\ [][Next]_vars

\* The steps of the worker thread that runs extractVsiLocalRun
VsiWorker ==
    \/ OpenAndParseHeader
    \/ Prepare
    \/ ReadChunk
    \/ Inflate
    \/ ParseIter
    \/ ParseReturn
    \/ AfterInflate
    \/ FinalFlush
    \/ Verify

\* Two payloads: sparse blocks and a data block up to the end of the stream,
\* and a data block followed by bytes that do not inflate.
LiveFiles ==
    { << <<"run", 0, 3>>, <<"run", 1, 2>>, <<"end", 0, 0>> >>,
      << <<"run", 1, 2>>, <<"bad", 0, 0>> >> }

VsiLiveInit ==
    /\ VsiInit
    /\ ArcIdle
    /\ OtherIdle
    /\ file \in LiveFiles

\* A session of either kind
NextSession == Next \/ NextArchive

\* A session of either kind whose worker thread keeps running and whose
\* DeviceWriter calls the callback of every write it has accepted.
SpecSessionLive ==
    /\ VsiLiveInit \/ ArchiveLiveInit
    /\ [][NextSession]_vars
    /\ WF_vars(VsiWorker)
    /\ WF_vars(ArchiveWorker)
    /\ WF_vars(ReleaseCallback)


-----------------------------------------------------------------------------
(* ArchiveEntryIODevice: a container entry as a sequential read-only device *)

\* No extraction session runs: the device is used on its own.
NoSession ==
    /\ pc = "none"
    /\ cancelled = FALSE
    /\ userCancel = FALSE
    /\ outcomes = <<>>
    /\ VsiIdle
    /\ ArcIdle

DevInit == NoSession /\ OtherIdle

sessionVars == <<pc, cancelled, userCancel, outcomes, vsiVars, arcVars>>

\* ArchiveEntryIODevice::open (lines 26-76): the entry is found and the device
\* is positioned at its first byte, or the container cannot be opened or does
\* not hold the entry and the handle is freed.
DevOpen ==
    /\ ~devArchive
    /\ devOp' = "open"
    /\ devLibError' = FALSE
    /\ UNCHANGED devMaxlen
    /\ \/ \E n \in 0..MaxEntrySize :
            /\ devArchive' = TRUE
            /\ devEntrySize' = n
            /\ devEntryFound' = TRUE
            /\ devBytesRead' = 0
            /\ devAtEnd' = FALSE
            /\ devResult' = 1
       \/ /\ devResult' = 0
          /\ UNCHANGED <<devArchive, devEntrySize, devEntryFound, devBytesRead,
                         devAtEnd>>
    /\ UNCHANGED <<sessionVars, dtorVars, isLocal, spuVars, appVars>>

\* ArchiveEntryIODevice::close (lines 78-88)
DevClose ==
    /\ devOp' = "close"
    /\ UNCHANGED devMaxlen
    /\ devArchive' = FALSE
    /\ devEntryFound' = FALSE
    /\ devAtEnd' = TRUE
    /\ devBytesRead' = 0
    /\ devEntrySize' = 0
    /\ devResult' = 0
    /\ devLibError' = FALSE
    /\ UNCHANGED <<sessionVars, dtorVars, isLocal, spuVars, appVars>>

\* ArchiveEntryIODevice::readData (lines 106-125) for maxlen bytes:
\* archive_read_data fails, or delivers up to maxlen of the bytes that are
\* left in the entry, 0 when none is left.
DevReadData ==
    /\ devOp' = "read"
    /\ \E maxlen \in 1..MaxEntrySize :
         /\ devMaxlen' = maxlen
         /\ IF ~devArchive \/ ~devEntryFound \/ devAtEnd
            THEN /\ devResult' = -1
                 /\ devLibError' = FALSE
                 /\ UNCHANGED <<devAtEnd, devBytesRead>>
            ELSE \/ /\ devResult' = -1
                    /\ devLibError' = TRUE
                    /\ UNCHANGED <<devAtEnd, devBytesRead>>
                 \/ \E bytesRead \in { k \in 0..Min(maxlen, devEntrySize - devBytesRead) :
                                          k = 0 <=> devBytesRead = devEntrySize } :
                      /\ devAtEnd' = (bytesRead = 0)
                      /\ devBytesRead' = devBytesRead + bytesRead
                      /\ devResult' = bytesRead
                      /\ devLibError' = FALSE
    /\ UNCHANGED <<devArchive, devEntryFound, devEntrySize>>
    /\ UNCHANGED <<sessionVars, dtorVars, isLocal, spuVars, appVars>>

NextEntryDevice ==
    \/ DevOpen
    \/ DevReadData
    \/ DevClose

SpecEntryDevice == DevInit /\ [][NextEntryDevice]_vars

-----------------------------------------------------------------------------
(* VsiExtractThread::~VsiExtractThread, run by the owner's thread while the  *)
(* worker thread may still be in extractVsiLocalRun                           *)

\* line 47: _cancelled = true
DtorCancel ==
    /\ dtor = "none"
    /\ pc \notin {"crashed"}
    /\ cancelled' = TRUE
    /\ dtor' = "cleanupZlib"
    /\ UNCHANGED <<pc, userCancel, outcomes, vsiVars, arcVars, devVars,
                   dtorFreed, isLocal, spuVars, appVars>>

\* line 48: _cleanupZlib(), which ends the inflate state if it is initialised
DtorCleanupZlib ==
    /\ dtor = "cleanupZlib"
    /\ zlibInitialized' = FALSE
    /\ dtorFreed' = IF zlibInitialized THEN dtorFreed \cup {"zstream"}
                    ELSE dtorFreed
    /\ dtor' = "closeFile"
    /\ UNCHANGED <<pc, cancelled, userCancel, outcomes, arcVars, devVars,
                   isLocal, spuVars, appVars>>
    /\ UNCHANGED <<file, filePos, header, finished, compressedRead, zlibVars,
                   parserVars, writeBufferCapacity>>

\* lines 50-52: the local file is closed
DtorCloseFile ==
    /\ dtor = "closeFile"
    /\ dtor' = "freeBuffers"
    /\ UNCHANGED <<sessionVars, devVars, dtorFreed, isLocal, spuVars, appVars>>

\* lines 54-62: the two aligned buffers are freed if they were allocated
DtorFreeBuffers ==
    /\ dtor = "freeBuffers"
    /\ dtorFreed' = IF writeBufferCapacity > 0
                    THEN dtorFreed \cup {"writeBuffer", "zeroBlock"}
                    ELSE dtorFreed
    /\ dtor' = "wait"
    /\ UNCHANGED <<sessionVars, devVars, isLocal, spuVars, appVars>>

\* line 64: wait() returns when the worker thread has finished
DtorWait ==
    /\ dtor = "wait"
    /\ pc \in {"done", "crashed"}
    /\ dtor' = "destroyed"
    /\ UNCHANGED <<sessionVars, devVars, dtorFreed, isLocal, spuVars, appVars>>

\* The worker thread uses what the destructor has freed or reset: inflate on
\* an ended stream, the parser on the freed buffers. The behaviour is
\* undefined: the step goes on as if nothing had happened (VsiWorker), or the
\* thread crashes here.
UseAfterFree ==
    /\ \/ pc = "inflate" /\ "zstream" \in dtorFreed
       \/ pc = "parse" /\ "writeBuffer" \in dtorFreed
    /\ pc' = "crashed"
    /\ UNCHANGED <<cancelled, userCancel, outcomes, vsiVars, arcVars, otherVars>>

NextTeardown ==
    \/ VsiWorker
    \/ UseAfterFree
    \/ DtorCancel
    \/ DtorCleanupZlib
    \/ DtorCloseFile
    \/ DtorFreeBuffers
    \/ DtorWait

SpecTeardown == VsiLiveInit /\ [][NextTeardown]_vars

-----------------------------------------------------------------------------
(* VsiExtractThread::run for either kind of URL *)

\* run() (lines 145-165) has taken the network branch for a URL that does
\* not begin with file://; the resource is a VSI file as in VsiLiveInit.
NetworkInit ==
    /\ pc = "network"
    /\ cancelled = FALSE
    /\ userCancel = FALSE
    /\ outcomes = <<>>
    /\ file \in LiveFiles
    /\ filePos = 0
    /\ header = ZeroHeader
    /\ zlibInitialized = FALSE
    /\ finished = FALSE
    /\ compressedRead = <<>>
    /\ zin = <<>>
    /\ zpend = <<>>
    /\ zret = "Z_OK"
    /\ availOut = 0
    /\ data = <<>>
    /\ offset = 0
    /\ pendingData = <<>>
    /\ expectingDelimiter = TRUE
    /\ bytesInCurrentBlock = 0
    /\ writeBuffer = <<>>
    /\ writeBufferUsed = 0
    /\ writeBufferCapacity = 0
    /\ totalBytesWritten = 0
    /\ deviceData = <<>>
    /\ plainFed = <<>>
    /\ splitInBlock = {}
    /\ ArcIdle
    /\ DevIdle
    /\ DtorIdle
    /\ SpuIdle
    /\ AppIdle
    /\ isLocal = FALSE

\* DownloadExtractThread::run(): the generic download-and-extract session of
\* the base class. It ends with the write-complete notification or with an
\* error, and none of VsiExtractThread's members takes part in it.
DownloadExtractThread_run ==
    \/ writeComplete /\ UNCHANGED cancelled
    \/ ~cancelled /\ onDownloadError("Error downloading image")
    \/ cancelled /\ UNCHANGED <<cancelled, outcomes>>

\* lines 357-371: extractVsiNetworkRun
ExtractVsiNetworkRun ==
    /\ pc = "network"
    /\ ~isLocal
    /\ DownloadExtractThread_run
    /\ pc' = "done"
    /\ UNCHANGED <<userCancel, vsiVars, arcVars, otherVars>>

NextRun ==
    \/ VsiWorker
    \/ ExtractVsiNetworkRun
    \/ Cancel

SpecRun == (VsiLiveInit \/ NetworkInit) /\ [][NextRun]_vars

-----------------------------------------------------------------------------
(* SPUCopyThread::run: format, mount, copy, unmount *)

SpuInit ==
    /\ NoSession
    /\ DevIdle
    /\ DtorIdle
    /\ AppIdle
    /\ isLocal = TRUE
    /\ spuPc = "format"
    /\ spuSkipFormat \in BOOLEAN
    /\ spuSource \in {"artifact", "url", "file", "archive"}
    /\ spuCancelled = FALSE
    /\ spuCopySuccess = FALSE
    /\ spuLog = <<>>
    /\ spuSignals = <<>>
    /\ copyBuffer = [allocated |-> 0, deleted |-> 0]

notSpu == <<sessionVars, devVars, dtorVars, isLocal, spuSource, copyBuffer,
            appVars>>

\* extractAndCopy's buffer after n delete[] (lines 311-312, 321, 337, 347);
\* the other copy methods have no such buffer
Buffer(inLoop, n) ==
    copyBuffer' = IF inLoop /\ spuSource \in {"artifact", "archive"}
                  THEN [allocated |-> 1, deleted |-> n]
                  ELSE [allocated |-> 0, deleted |-> 0]

Call(op, ok) == spuLog' = Append(spuLog, [op |-> op, ok |-> ok])

EmitError(msg) == spuSignals' = Append(spuSignals, msg)

\* lines 167-172, 181-186, 212-217: if (_cancelled) { unmountDrive(mountPoint);
\* emit error(...); return; }
CancelCheck(at, next) ==
    /\ spuPc = at
    /\ IF spuCancelled
       THEN /\ \E ok \in BOOLEAN : Call("unmount", ok)
            /\ EmitError("Operation cancelled")
            /\ spuPc' = "done"
       ELSE /\ spuPc' = next
            /\ UNCHANGED <<spuLog, spuSignals>>
    /\ UNCHANGED <<spuSkipFormat, spuCancelled, spuCopySuccess, notSpu>>

\* lines 138-149: formatDrive() unless _skipFormat; it emits its own error
SpuFormat ==
    /\ spuPc = "format"
    /\ IF spuSkipFormat
       THEN /\ spuPc' = "check1"
            /\ UNCHANGED <<spuLog, spuSignals>>
       ELSE \E ok \in BOOLEAN :
              /\ Call("format", ok)
              /\ IF ok
                 THEN spuPc' = "check1" /\ UNCHANGED spuSignals
                 ELSE spuPc' = "done" /\ EmitError("format error")
    /\ UNCHANGED <<spuSkipFormat, spuCancelled, spuCopySuccess, notSpu>>

\* lines 150-154: the cancellation check before the mount
SpuCheck1 ==
    /\ spuPc = "check1"
    /\ IF spuCancelled
       THEN /\ EmitError("Operation cancelled")
            /\ spuPc' = "done"
       ELSE /\ spuPc' = "mount"
            /\ UNCHANGED spuSignals
    /\ UNCHANGED <<spuLog, spuSkipFormat, spuCancelled, spuCopySuccess, notSpu>>

\* lines 156-163: mountDrive(); an empty mount point is a failure
SpuMount ==
    /\ spuPc = "mount"
    /\ \E ok \in BOOLEAN :
         /\ Call("mount", ok)
         /\ IF ok
            THEN spuPc' = "check2" /\ UNCHANGED spuSignals
            ELSE spuPc' = "done" /\ EmitError("Failed to mount USB drive")
    /\ UNCHANGED <<spuSkipFormat, spuCancelled, spuCopySuccess, notSpu>>

\* lines 167-172
SpuCheck2 == CancelCheck("check2", "delete")

\* lines 174-179: deleteExistingSpuFiles when the drive was not formatted
SpuDelete ==
    /\ spuPc = "delete"
    /\ spuPc' = "check3"
    /\ UNCHANGED <<spuLog, spuSignals, spuSkipFormat, spuCancelled,
                   spuCopySuccess, notSpu>>

\* lines 181-186
SpuCheck3 == CancelCheck("check3", "copy")

\* The copy method run() chooses for the source (lines 191-210)
CopyMethod ==
    CASE spuSource = "artifact" -> "downloadArtifactAndCopy"
      [] spuSource = "url"      -> "streamUrlToFile"
      [] spuSource = "file"     -> "copyDirectFile"
      [] OTHER                  -> "extractAndCopy"

\* extractAndCopy (lines 264-372), which downloadArtifactAndCopy ends with
\* (615, 700), is the method
UsesExtractAndCopy == spuSource \in {"artifact", "archive"}

\* lines 188-210: the copy, by the method of the source type. It succeeds, or
\* fails before its copy loop (the source or the destination cannot be
\* opened, the entry is missing, cancellation), or fails in the loop on a read
\* or write error. A failed copy emits its own error unless it was left on
\* cancellation. In extractAndCopy the error branches of the loop delete the
\* buffer and break, and the statement after the loop deletes it again
\* (lines 321, 337, 347): the behaviour is undefined, the call returns false
\* or the process is aborted by the allocator.
SpuCopy ==
    /\ spuPc = "copy"
    /\ \/ /\ Call(CopyMethod, TRUE)
          /\ spuCopySuccess' = TRUE
          /\ spuPc' = "check4"
          /\ Buffer(TRUE, 1)
          /\ UNCHANGED spuSignals
       \/ /\ Call(CopyMethod, FALSE)
          /\ spuCopySuccess' = FALSE
          /\ spuPc' = "check4"
          /\ \/ EmitError("copy error") /\ Buffer(FALSE, 0)
             \/ /\ spuCancelled
                /\ UNCHANGED spuSignals
                /\ \E inLoop \in BOOLEAN : Buffer(inLoop, 1)
       \/ /\ Call(CopyMethod, FALSE)
          /\ spuCopySuccess' = FALSE
          /\ EmitError("Error reading from archive")
          /\ Buffer(TRUE, 2)
          /\ IF UsesExtractAndCopy
             THEN spuPc' \in {"check4", "crashed"}
             ELSE spuPc' = "check4"
    /\ UNCHANGED <<spuSkipFormat, spuCancelled, sessionVars, devVars, dtorVars,
                   isLocal, spuSource, appVars>>

\* lines 212-217
SpuCheck4 == CancelCheck("check4", "result")

\* lines 219-223: a failed copy is followed by unmountDrive and return
SpuResult ==
    /\ spuPc = "result"
    /\ IF ~spuCopySuccess
       THEN /\ \E ok \in BOOLEAN : Call("unmount", ok)
            /\ spuPc' = "done"
       ELSE /\ spuPc' = "unmount"
            /\ UNCHANGED spuLog
    /\ UNCHANGED <<spuSignals, spuSkipFormat, spuCancelled, spuCopySuccess,
                   notSpu>>

\* lines 225-235: unmountDrive, then success() or the eject error
SpuUnmount ==
    /\ spuPc = "unmount"
    /\ \E ok \in BOOLEAN :
         /\ Call("unmount", ok)
         /\ IF ok
            THEN spuSignals' = Append(spuSignals, "success")
            ELSE EmitError("Failed to safely eject USB drive")
    /\ spuPc' = "done"
    /\ UNCHANGED <<spuSkipFormat, spuCancelled, spuCopySuccess, notSpu>>

\* SPUCopyThread::cancelCopy (lines 107-110), from another thread
SpuCancelCopy ==
    /\ spuPc \notin {"none", "done", "crashed"}
    /\ ~spuCancelled
    /\ spuCancelled' = TRUE
    /\ UNCHANGED <<spuPc, spuSkipFormat, spuCopySuccess, spuLog, spuSignals,
                   notSpu>>

NextSpu ==
    \/ SpuFormat
    \/ SpuCheck1
    \/ SpuMount
    \/ SpuCheck2
    \/ SpuDelete
    \/ SpuCheck3
    \/ SpuCopy
    \/ SpuCheck4
    \/ SpuResult
    \/ SpuUnmount
    \/ SpuCancelCopy

SpecSpu == SpuInit /\ [][NextSpu]_vars

-----------------------------------------------------------------------------
(* ArchiveEntryExtractThread: an entry of a local container streamed through *)
(* ArchiveEntryIODevice by the worker thread, with _cancelExtract and the    *)
(* destructor run by the owner's thread                                      *)

AeInit ==
    /\ pc = "ae:open"
    /\ cancelled = FALSE
    /\ userCancel = FALSE
    /\ outcomes = <<>>
    /\ VsiIdle
    /\ ArcIdle
    /\ OtherIdle

notAe == <<userCancel, vsiVars, arcVars, isLocal, spuVars, appVars>>

\* _archiveDevice is not null: run() has created the device (line 66) and the
\* destructor has not deleted it
DeviceExists == pc # "ae:open" /\ "deleted" \notin dtorFreed

\* lines 65-73: the device is created and opened
AeOpen ==
    /\ pc = "ae:open"
    /\ devOp' = "open"
    /\ devLibError' = FALSE
    /\ \/ \E n \in 0..MaxEntrySize :
            /\ devArchive' = TRUE
            /\ devEntrySize' = n
            /\ devEntryFound' = TRUE
            /\ devBytesRead' = 0
            /\ devAtEnd' = FALSE
            /\ devResult' = 1
            /\ pc' = "ae:test"
            /\ UNCHANGED <<cancelled, outcomes>>
       \/ /\ devResult' = 0
          /\ onDownloadError("Failed to open entry in archive")
          /\ pc' = "done"
          /\ UNCHANGED <<devArchive, devEntrySize, devEntryFound, devBytesRead,
                         devAtEnd>>
    /\ UNCHANGED <<devMaxlen, dtorVars, notAe>>

\* line 105: while (!_archiveDevice->atEnd() && !_cancelled). A call on a
\* deleted device is undefined: it answers from the freed object or crashes.
AeLoopTest ==
    /\ pc = "ae:test"
    /\ \/ pc' = IF (devAtEnd \/ ~devEntryFound) \/ cancelled
                 THEN "ae:end" ELSE "ae:read"
       \/ "deleted" \in dtorFreed /\ pc' = "crashed"
    /\ UNCHANGED <<cancelled, outcomes, devVars, dtorVars, notAe>>

\* lines 106-127: one read of up to _inputBufSize bytes and its write
AeRead ==
    /\ pc = "ae:read"
    /\ \/ /\ devOp' = "read"
          /\ devMaxlen' = MaxEntrySize
          /\ IF ~devArchive \/ ~devEntryFound \/ devAtEnd
             THEN /\ devResult' = -1
                  /\ devLibError' = FALSE
                  /\ UNCHANGED <<devAtEnd, devBytesRead>>
                  /\ onDownloadError("Error reading from archive entry")
                  /\ pc' = "ae:end"
             ELSE \/ /\ devResult' = -1
                     /\ devLibError' = TRUE
                     /\ UNCHANGED <<devAtEnd, devBytesRead>>
                     /\ onDownloadError("Error reading from archive entry")
                     /\ pc' = "ae:end"
                  \/ \E bytesRead \in
                          { k \in 0..(devEntrySize - devBytesRead) :
                              k = 0 <=> devBytesRead = devEntrySize } :
                       /\ devAtEnd' = (bytesRead = 0)
                       /\ devBytesRead' = devBytesRead + bytesRead
                       /\ devResult' = bytesRead
                       /\ devLibError' = FALSE
                       /\ \/ /\ pc' = IF bytesRead = 0 THEN "ae:end" ELSE "ae:test"
                             /\ UNCHANGED <<cancelled, outcomes>>
                          \/ /\ bytesRead > 0
                             /\ onDownloadError("Error writing to device")
                             /\ pc' = "ae:end"
          /\ UNCHANGED <<devArchive, devEntryFound, devEntrySize>>
       \/ /\ "deleted" \in dtorFreed
          /\ pc' = "crashed"
          /\ UNCHANGED <<cancelled, outcomes, devVars>>
    /\ UNCHANGED <<dtorVars, notAe>>

\* lines 130-136: the outcome of extractRawImageRun, and the return of run()
AeFinish ==
    /\ pc = "ae:end"
    /\ IF cancelled
       THEN UNCHANGED <<cancelled, outcomes>>
       ELSE IF devEntrySize = 0 \/ devBytesRead >= devEntrySize
       THEN writeComplete /\ UNCHANGED cancelled
       ELSE onDownloadError("Failed to read complete archive entry")
    /\ pc' = "done"
    /\ UNCHANGED <<devVars, dtorVars, notAe>>

\* ArchiveEntryIODevice::close (lines 78-88) called from the owner's thread
CloseFromOwner ==
    /\ devOp' = "close"
    /\ devArchive' = FALSE
    /\ devEntryFound' = FALSE
    /\ devAtEnd' = TRUE
    /\ devBytesRead' = 0
    /\ devEntrySize' = 0
    /\ devResult' = 0
    /\ devLibError' = FALSE
    /\ UNCHANGED devMaxlen

\* ArchiveEntryExtractThread::_cancelExtract (lines 45-51)
AeCancelExtract ==
    /\ pc \notin {"done", "crashed"}
    /\ dtor = "none"
    /\ ~userCancel
    /\ cancelled' = TRUE
    /\ userCancel' = TRUE
    /\ IF DeviceExists /\ devArchive
       THEN CloseFromOwner /\ dtorFreed' = dtorFreed \cup {"closed"}
       ELSE UNCHANGED <<devVars, dtorFreed>>
    /\ UNCHANGED <<pc, outcomes, dtor, vsiVars, arcVars, isLocal, spuVars, appVars>>

\* lines 29-35 of the destructor: _cancelled = true, then the device is
\* closed and deleted if it exists
AeDtorDeleteDevice ==
    /\ dtor = "none"
    /\ pc # "crashed"
    /\ cancelled' = TRUE
    /\ IF DeviceExists
       THEN CloseFromOwner /\ dtorFreed' = dtorFreed \cup {"closed", "deleted"}
       ELSE UNCHANGED <<devVars, dtorFreed>>
    /\ dtor' = "wait"
    /\ UNCHANGED <<pc, outcomes, notAe>>

\* lines 37-42: wait(), then the input buffer is freed
AeDtorWait ==
    /\ dtor = "wait"
    /\ pc \in {"done", "crashed"}
    /\ dtor' = "destroyed"
    /\ dtorFreed' = dtorFreed \cup {"inputBuf"}
    /\ UNCHANGED <<pc, cancelled, outcomes, devVars, notAe>>

NextEntryThread ==
    \/ AeOpen
    \/ AeLoopTest
    \/ AeRead
    \/ AeFinish
    \/ AeCancelExtract
    \/ AeDtorDeleteDevice
    \/ AeDtorWait

SpecEntryThread == AeInit /\ [][NextEntryThread]_vars

-----------------------------------------------------------------------------
(* GitHubAuth: the OAuth device flow. Every handler runs to completion on *)
(* the object's thread; replies arrive in any order and at any time.      *)

MaxReplies == 2

AuthInit ==
    /\ NoSession
    /\ DevIdle
    /\ DtorIdle
    /\ isLocal = TRUE
    /\ SpuIdle
    /\ PollIdle
    /\ RepoIdle
    /\ InspIdle
    /\ clientId \in {"", "id"}
    /\ authState = "Idle"
    /\ deviceCode = ""
    /\ accessToken = ""
    /\ storedToken \in {"", "old"}
    /\ errorMessage = ""
    /\ pollTimer = FALSE
    /\ deviceReplies = 0
    /\ tokenReplies = 0
    /\ authCancelled = FALSE

notAuth == <<sessionVars, devVars, dtorVars, isLocal, spuVars, pollVars,
             repoVars, inspVars>>

\* githubauth.h line 62
isAuthenticated == authState = "Authenticated" /\ accessToken # ""

\* setError (lines 305-313)
setError(message) ==
    /\ errorMessage' = message
    /\ authState' = "Error"

\* startDeviceFlow (lines 30-64)
StartDeviceFlow ==
    /\ authCancelled' = FALSE
    /\ IF clientId = ""
       THEN /\ setError("GitHub Client ID not configured")
            /\ UNCHANGED <<deviceCode, accessToken, pollTimer, deviceReplies>>
       ELSE /\ deviceReplies < MaxReplies
            /\ deviceCode' = ""
            /\ accessToken' = ""
            /\ errorMessage' = ""
            /\ pollTimer' = FALSE
            /\ authState' = "Idle"
            /\ deviceReplies' = deviceReplies + 1
    /\ UNCHANGED <<clientId, storedToken, tokenReplies, notAuth>>

\* onDeviceCodeResponse (lines 66-132)
OnDeviceCodeResponse ==
    /\ deviceReplies > 0
    /\ deviceReplies' = deviceReplies - 1
    /\ \/ /\ \E message \in {"Network error", "error_description",
                               "Invalid response from GitHub"} :
                setError(message)
          /\ UNCHANGED <<deviceCode, pollTimer>>
       \/ /\ deviceCode' = "code"
          /\ authState' = "WaitingForUserCode"
          /\ pollTimer' = TRUE
          /\ UNCHANGED errorMessage
    /\ UNCHANGED <<clientId, accessToken, storedToken, tokenReplies,
                   authCancelled, notAuth>>

\* pollForToken (lines 134-156), the slot of the timer's timeout
PollForToken ==
    /\ pollTimer
    /\ IF authState \notin {"WaitingForUserCode", "Polling"}
       THEN /\ pollTimer' = FALSE
            /\ UNCHANGED <<authState, tokenReplies>>
       ELSE /\ tokenReplies < MaxReplies
            /\ authState' = "Polling"
            /\ tokenReplies' = tokenReplies + 1
            /\ UNCHANGED pollTimer
    /\ UNCHANGED <<clientId, deviceCode, accessToken, storedToken,
                   errorMessage, deviceReplies, authCancelled, notAuth>>

\* onTokenPollResponse (lines 158-231)
OnTokenPollResponse ==
    /\ tokenReplies > 0
    /\ tokenReplies' = tokenReplies - 1
    /\ \/ \* network error, authorization_pending, slow_down
          /\ authState' = "WaitingForUserCode"
          /\ UNCHANGED <<accessToken, storedToken, errorMessage, pollTimer>>
       \/ \* an access token
          /\ pollTimer' = FALSE
          /\ accessToken' = "new"
          /\ storedToken' = "new"
          /\ authState' = "Authenticated"
          /\ UNCHANGED errorMessage
       \/ \* expired_token, access_denied, any other error
          /\ pollTimer' = FALSE
          /\ \E message \in {"The device code has expired",
                               "Access was denied", "Authentication failed"} :
                setError(message)
          /\ UNCHANGED <<accessToken, storedToken>>
    /\ UNCHANGED <<clientId, deviceCode, deviceReplies, authCancelled, notAuth>>

\* cancelAuth (lines 233-244)
CancelAuth ==
    /\ pollTimer' = FALSE
    /\ deviceCode' = ""
    /\ errorMessage' = ""
    /\ authState' = "Idle"
    /\ authCancelled' = TRUE
    /\ UNCHANGED <<clientId, accessToken, storedToken, deviceReplies,
                   tokenReplies, notAuth>>

\* logout (lines 246-260)
Logout ==
    /\ pollTimer' = FALSE
    /\ deviceCode' = ""
    /\ accessToken' = ""
    /\ errorMessage' = ""
    /\ storedToken' = ""
    /\ authState' = "Idle"
    /\ UNCHANGED <<clientId, deviceReplies, tokenReplies, authCancelled,
                   notAuth>>

\* loadStoredToken (lines 262-276)
LoadStoredToken ==
    /\ authCancelled' = FALSE
    /\ IF storedToken = ""
       THEN UNCHANGED <<accessToken, authState>>
       ELSE /\ accessToken' = storedToken
            /\ authState' = "Authenticated"
    /\ UNCHANGED <<clientId, deviceCode, storedToken, errorMessage, pollTimer,
                   deviceReplies, tokenReplies, notAuth>>

NextAuth ==
    \/ StartDeviceFlow
    \/ OnDeviceCodeResponse
    \/ PollForToken
    \/ OnTokenPollResponse
    \/ CancelAuth
    \/ Logout
    \/ LoadStoredToken

SpecAuth == AuthInit /\ [][NextAuth]_vars

-----------------------------------------------------------------------------
(* DriveListModelPollThread: the scanning loop of run() and the calls made *)
(* on the thread object from the GUI thread                                *)

MaxScans == 3

ScanModes == {"Normal", "Slow", "Paused"}

\* the sleepSeconds of line 128
SlowSeconds == 5
NormalSeconds == 1

PollInit ==
    /\ NoSession
    /\ DevIdle
    /\ DtorIdle
    /\ isLocal = TRUE
    /\ SpuIdle
    /\ AuthIdle
    /\ RepoIdle
    /\ InspIdle
    /\ pollPc = "top"
    /\ scanMode \in ScanModes
    /\ refreshRequested = FALSE
    /\ terminate = FALSE
    /\ currentMode = "Normal"
    /\ needsRefresh = FALSE
    /\ sleepLeft = 0
    /\ scans = 0
    /\ refreshOutstanding = FALSE

notPoll == <<sessionVars, devVars, dtorVars, isLocal, spuVars, authVars,
             repoVars, inspVars>>

\* lines 95-106: the loop test, then mode and flag are read and the flag is
\* cleared under the mutex
PollSample ==
    /\ pollPc = "top"
    /\ IF terminate
       THEN /\ pollPc' = "stopped"
            /\ UNCHANGED <<currentMode, needsRefresh, refreshRequested>>
       ELSE /\ currentMode' = scanMode
            /\ needsRefresh' = refreshRequested
            /\ refreshRequested' = FALSE
            /\ pollPc' = "sampled"
    /\ UNCHANGED <<scanMode, terminate, sleepLeft, scans, refreshOutstanding,
                   notPoll>>

\* lines 108-118: the branch on the sampled values; the scan starts here
PollBranch ==
    /\ pollPc = "sampled"
    /\ IF currentMode = "Paused" /\ ~needsRefresh
       THEN /\ pollPc' = "wait"
            /\ UNCHANGED <<scans, refreshOutstanding>>
       ELSE /\ scans < MaxScans
            /\ pollPc' = "scan"
            /\ scans' = scans + 1
            /\ refreshOutstanding' = FALSE
    /\ UNCHANGED <<scanMode, refreshRequested, terminate, currentMode,
                   needsRefresh, sleepLeft, notPoll>>

\* lines 110-114: the wait loop is left when its condition is false
PollWait ==
    /\ pollPc = "wait"
    /\ ~(scanMode = "Paused" /\ ~refreshRequested /\ ~terminate)
    /\ pollPc' = "top"
    /\ UNCHANGED <<scanMode, refreshRequested, terminate, currentMode,
                   needsRefresh, sleepLeft, scans, refreshOutstanding, notPoll>>

\* lines 118-128: the scan returns and the sleep loop is set up
PollScan ==
    /\ pollPc = "scan"
    /\ sleepLeft' = IF currentMode = "Slow" THEN SlowSeconds ELSE NormalSeconds
    /\ pollPc' = "sleep"
    /\ UNCHANGED <<scanMode, refreshRequested, terminate, currentMode,
                   needsRefresh, scans, refreshOutstanding, notPoll>>

\* lines 131-138: one turn of the interruptible sleep
PollSleep ==
    /\ pollPc = "sleep"
    /\ IF sleepLeft = 0 \/ terminate \/ scanMode = "Paused" \/ refreshRequested
       THEN pollPc' = "top" /\ UNCHANGED sleepLeft
       ELSE sleepLeft' = sleepLeft - 1 /\ UNCHANGED pollPc
    /\ UNCHANGED <<scanMode, refreshRequested, terminate, currentMode,
                   needsRefresh, scans, refreshOutstanding, notPoll>>

\* setScanMode (lines 40-58), pause and resume (lines 66-74)
SetScanMode ==
    /\ \E mode \in ScanModes : scanMode' = mode
    /\ UNCHANGED <<pollPc, refreshRequested, terminate, currentMode,
                   needsRefresh, sleepLeft, scans, refreshOutstanding, notPoll>>

\* refreshNow (lines 76-82)
RefreshNow ==
    /\ pollPc # "stopped"
    /\ ~terminate
    /\ refreshRequested' = TRUE
    /\ refreshOutstanding' = TRUE
    /\ UNCHANGED <<pollPc, scanMode, terminate, currentMode, needsRefresh,
                   sleepLeft, scans, notPoll>>

\* stop (lines 27-31)
PollStop ==
    /\ ~terminate
    /\ terminate' = TRUE
    /\ UNCHANGED <<pollPc, scanMode, refreshRequested, currentMode,
                   needsRefresh, sleepLeft, scans, refreshOutstanding, notPoll>>

PollWorker == PollSample \/ PollBranch \/ PollWait \/ PollScan \/ PollSleep

NextPoll ==
    \/ PollSample
    \/ PollBranch
    \/ PollWait
    \/ PollScan
    \/ PollSleep
    \/ SetScanMode
    \/ RefreshNow
    \/ PollStop

SpecPoll == PollInit /\ [][NextPoll]_vars

\* The operating system schedules the poll thread: a step of run() that
\* stays possible is taken.
SpecPollLive == PollInit /\ [][NextPoll]_vars /\ WF_vars(PollWorker)

-----------------------------------------------------------------------------
(* RepositoryManager::refreshAllSources and the replies of the CDN source *)
(* and of GitHubClient that it counts                                     *)

MaxRepos == 1
MaxRuns == 2

RepoInit ==
    /\ NoSession
    /\ DevIdle
    /\ DtorIdle
    /\ isLocal = TRUE
    /\ SpuIdle
    /\ AuthIdle
    /\ PollIdle
    /\ InspIdle
    /\ githubRepos \in {1..n : n \in 0..MaxRepos}
    /\ refreshStarted = FALSE
    /\ isLoading = FALSE
    /\ pendingRefreshCount = 0
    /\ pendingBranchFetchCount = 0
    /\ pendingRequests = {}
    /\ artifactSearchStates = <<>>
    /\ delivered = {}
    /\ osListReady = 0

notRepo == <<sessionVars, devVars, dtorVars, isLocal, spuVars, authVars,
             pollVars, inspVars>>

Request(type, repo, run) == [type |-> type, repo |-> repo, run |-> run]

\* The searches that refreshAllSources counts: the CDN list and, for every
\* enabled repository, the release search and the artifact search
Counted == {<<"cdn", 0>>} \cup ({"releases", "artifacts"} \X githubRepos)

\* checkRefreshComplete (lines 868-883) after `_pendingRefreshCount--`
checkRefreshComplete ==
    IF pendingRefreshCount - 1 <= 0
    THEN /\ pendingRefreshCount' = 0
         /\ isLoading' = FALSE
         /\ osListReady' = osListReady + 1
    ELSE /\ pendingRefreshCount' = pendingRefreshCount - 1
         /\ UNCHANGED <<isLoading, osListReady>>

\* refreshAllSources (lines 354-390) with fetchAvailableBranches (320-352)
RefreshAllSources ==
    /\ ~refreshStarted
    /\ refreshStarted' = TRUE
    /\ isLoading' = TRUE
    /\ pendingRefreshCount' = 1 + 2 * Cardinality(githubRepos)
    /\ pendingBranchFetchCount' = 2 * Cardinality(githubRepos)
    /\ pendingRequests' =
          {Request("cdn", 0, 0)} \cup
          { Request(t, r, 0) : t \in {"WicSearch", "ArtifactWicSearch",
                                       "Branches", "Tags"}, r \in githubRepos }
    /\ UNCHANGED <<githubRepos, artifactSearchStates, delivered, osListReady,
                   notRepo>>

\* onCdnListReady (lines 608-617) or onSourceError (834-842) for the CDN list
CdnReply ==
    /\ Request("cdn", 0, 0) \in pendingRequests
    /\ pendingRequests' = pendingRequests \ {Request("cdn", 0, 0)}
    /\ \E how \in {"result", "error"} :
          delivered' = delivered \cup {<<"cdn", 0, how>>}
    /\ checkRefreshComplete
    /\ UNCHANGED <<githubRepos, refreshStarted, pendingBranchFetchCount,
                   artifactSearchStates, notRepo>>

\* The search a GitHub request belongs to
SearchOf(req) ==
    CASE req.type = "WicSearch" -> "releases"
      [] req.type \in {"ArtifactWicSearch", "WorkflowArtifacts"} -> "artifacts"
      [] OTHER -> "branches"

\* handleNetworkReply (lines 913-1129) for a request that failed: a rate
\* limit is reported by rateLimitExceeded alone (925-933), every other
\* failure by error(), whose slot is onSourceError (834-842)
ReplyFailed ==
    \E req \in pendingRequests :
       /\ req.type # "cdn"
       /\ pendingRequests' = pendingRequests \ {req}
       /\ \/ UNCHANGED <<delivered, pendingRefreshCount, isLoading, osListReady>>
          \/ /\ delivered' = delivered \cup {<<SearchOf(req), req.repo, "error">>}
             /\ checkRefreshComplete
       /\ UNCHANGED <<githubRepos, refreshStarted, pendingBranchFetchCount,
                      artifactSearchStates, notRepo>>

\* handleNetworkReply for RequestWicSearch (lines 1000-1006): wicFilesReady,
\* whose slot is onGitHubWicFilesReady (619-704), or nothing for a document
\* that is not an array
ReleasesReply ==
    \E req \in pendingRequests :
       /\ req.type = "WicSearch"
       /\ pendingRequests' = pendingRequests \ {req}
       /\ \/ /\ delivered' = delivered \cup {<<SearchOf(req), req.repo, "result">>}
             /\ checkRefreshComplete
          \/ UNCHANGED <<delivered, pendingRefreshCount, isLoading, osListReady>>
       /\ UNCHANGED <<githubRepos, refreshStarted, pendingBranchFetchCount,
                      artifactSearchStates, notRepo>>

\* handleNetworkReply for RequestBranches and RequestTags (lines 976-998):
\* branchesReady or tagsReady, whose slot onBranchesReady (789-814) counts
\* in _pendingBranchFetchCount only
BranchesReply ==
    \E req \in pendingRequests :
       /\ req.type \in {"Branches", "Tags"}
       /\ pendingRequests' = pendingRequests \ {req}
       /\ pendingBranchFetchCount' =
             IF pendingBranchFetchCount - 1 <= 0 THEN 0
             ELSE pendingBranchFetchCount - 1
       /\ UNCHANGED <<githubRepos, refreshStarted, isLoading,
                      pendingRefreshCount, artifactSearchStates, delivered,
                      osListReady, notRepo>>

\* handleNetworkReply for RequestArtifactWicSearch (lines 1071-1127): no
\* runs, or one artifacts request per run
ArtifactSearchReply ==
    \E req \in pendingRequests :
       /\ req.type = "ArtifactWicSearch"
       /\ \/ /\ pendingRequests' = pendingRequests \ {req}
             /\ delivered' = delivered \cup {<<SearchOf(req), req.repo, "result">>}
             /\ checkRefreshComplete
             /\ UNCHANGED artifactSearchStates
          \/ \E runs \in 1..MaxRuns :
                /\ artifactSearchStates' =
                      [r \in DOMAIN artifactSearchStates \cup {req.repo} |->
                          IF r = req.repo THEN runs
                                          ELSE artifactSearchStates[r]]
                /\ pendingRequests' = (pendingRequests \ {req}) \cup
                      { Request("WorkflowArtifacts", req.repo, k) : k \in 1..runs }
                /\ UNCHANGED <<delivered, pendingRefreshCount, isLoading,
                               osListReady>>
       /\ UNCHANGED <<githubRepos, refreshStarted, pendingBranchFetchCount,
                      notRepo>>

\* handleNetworkReply for RequestWorkflowArtifacts (lines 1031-1069), with
\* the slot onGitHubArtifactFilesReady (706-787) when the last run is in
RunArtifactsReply ==
    \E req \in pendingRequests :
       /\ req.type = "WorkflowArtifacts"
       /\ pendingRequests' = pendingRequests \ {req}
       /\ IF req.repo \in DOMAIN artifactSearchStates
          THEN IF artifactSearchStates[req.repo] - 1 <= 0
               THEN /\ artifactSearchStates' =
                         [r \in DOMAIN artifactSearchStates \ {req.repo} |->
                             artifactSearchStates[r]]
                    /\ delivered' = delivered \cup {<<SearchOf(req), req.repo, "result">>}
                    /\ checkRefreshComplete
               ELSE /\ artifactSearchStates' =
                         [artifactSearchStates EXCEPT ![req.repo] = @ - 1]
                    /\ UNCHANGED <<delivered, pendingRefreshCount, isLoading,
                                   osListReady>>
          ELSE UNCHANGED <<artifactSearchStates, delivered,
                           pendingRefreshCount, isLoading, osListReady>>
       /\ UNCHANGED <<githubRepos, refreshStarted, pendingBranchFetchCount,
                      notRepo>>

Replies ==
    \/ CdnReply
    \/ ReplyFailed
    \/ ReleasesReply
    \/ BranchesReply
    \/ ArtifactSearchReply
    \/ RunArtifactsReply

NextRepo ==
    \/ RefreshAllSources
    \/ CdnReply
    \/ ReplyFailed
    \/ ReleasesReply
    \/ BranchesReply
    \/ ArtifactSearchReply
    \/ RunArtifactsReply

SpecRepo == RepoInit /\ [][NextRepo]_vars

\* Every network request eventually finishes.
SpecRepoLive == RepoInit /\ [][NextRepo]_vars /\ WF_vars(Replies)

-----------------------------------------------------------------------------
(* GitHubClient: the inspection of a CI artifact (initial request to the *)
(* API, redirected download into a .partial file) and its cancellation   *)

MaxData == 3
MaxInspections == 3

InspInit ==
    /\ NoSession
    /\ DevIdle
    /\ DtorIdle
    /\ isLocal = TRUE
    /\ SpuIdle
    /\ AuthIdle
    /\ PollIdle
    /\ RepoIdle
    /\ cachedZip \in {"none", "valid", "corrupt"}
    /\ activeInspectionReply = "none"
    /\ activeInspectionFile = FALSE
    /\ activeInspectionBytesWritten = 0
    /\ partialArtifactDownload \in
          {[isValid |-> FALSE, bytesDownloaded |-> 0]} \cup
          {[isValid |-> TRUE, bytesDownloaded |-> n] : n \in 1..MaxData}
    /\ inspections = 0
    /\ inspectionSignals = <<>>
    /\ inspectionCancelled = FALSE

notInsp == <<sessionVars, devVars, dtorVars, isLocal, spuVars, authVars,
             pollVars, repoVars>>

Emit(signals) == inspectionSignals' = inspectionSignals \o signals

\* inspectArtifactContents up to the request (lines 432-470)
InspectArtifactContents ==
    /\ activeInspectionReply = "none"
    /\ inspections < MaxInspections
    /\ inspections' = inspections + 1
    /\ inspectionCancelled' = FALSE
    /\ IF cachedZip = "valid"
       THEN /\ inspectionSignals' = <<"artifactContentsReady">>
            /\ UNCHANGED <<cachedZip, activeInspectionReply>>
       ELSE /\ cachedZip' = "none"
            /\ activeInspectionReply' = "initial"
            /\ inspectionSignals' = <<>>
    /\ UNCHANGED <<activeInspectionFile, activeInspectionBytesWritten,
                   partialArtifactDownload, notInsp>>

\* inspectArtifactFromUrl up to the request (lines 510-570)
inspectArtifactFromUrl ==
    \/ /\ Emit(<<"error: Failed to open file for writing">>)
       /\ activeInspectionReply' = "none"
       /\ UNCHANGED <<activeInspectionFile, activeInspectionBytesWritten>>
    \/ /\ activeInspectionFile' = TRUE
       /\ activeInspectionBytesWritten' =
             IF partialArtifactDownload.isValid
             THEN partialArtifactDownload.bytesDownloaded ELSE 0
       /\ activeInspectionReply' = "download"
       /\ UNCHANGED inspectionSignals

\* the finished handler of the initial request (lines 472-507), for a reply
\* that was not aborted
InitialFinished ==
    /\ activeInspectionReply = "initial"
    /\ \/ /\ inspectArtifactFromUrl
          /\ UNCHANGED cachedZip
       \/ /\ \E message \in {"error: Failed to inspect artifact",
                               "error: Failed to save artifact for inspection"} :
                Emit(<<message>>)
          /\ activeInspectionReply' = "none"
          /\ UNCHANGED <<cachedZip, activeInspectionFile,
                         activeInspectionBytesWritten>>
       \/ /\ Emit(<<"artifactContentsReady">>)
          /\ cachedZip' = "valid"
          /\ activeInspectionReply' = "none"
          /\ UNCHANGED <<activeInspectionFile, activeInspectionBytesWritten>>
    /\ UNCHANGED <<partialArtifactDownload, inspections, inspectionCancelled,
                   notInsp>>

\* the readyRead handler (lines 572-581)
ReadyRead ==
    /\ activeInspectionReply = "download"
    /\ activeInspectionFile
    /\ activeInspectionBytesWritten < MaxData
    /\ activeInspectionBytesWritten' = activeInspectionBytesWritten + 1
    /\ UNCHANGED <<cachedZip, activeInspectionReply, activeInspectionFile,
                   partialArtifactDownload, inspections, inspectionSignals,
                   inspectionCancelled, notInsp>>

\* the finished handler of the download (lines 597-645), for a reply that
\* was not aborted
DownloadFinished ==
    /\ activeInspectionReply = "download"
    /\ activeInspectionReply' = "none"
    /\ activeInspectionFile' = FALSE
    /\ \/ /\ Emit(<<"error: Failed to download artifact for inspection">>)
          /\ partialArtifactDownload' = [isValid |-> FALSE, bytesDownloaded |-> 0]
          /\ UNCHANGED <<cachedZip, activeInspectionBytesWritten>>
       \/ /\ Emit(<<"error: Failed to finalize artifact download">>)
          /\ UNCHANGED <<cachedZip, activeInspectionBytesWritten,
                         partialArtifactDownload>>
       \/ /\ Emit(<<"artifactContentsReady">>)
          /\ cachedZip' = "valid"
          /\ activeInspectionBytesWritten' = 0
          /\ partialArtifactDownload' = [isValid |-> FALSE, bytesDownloaded |-> 0]
    /\ UNCHANGED <<inspections, inspectionCancelled, notInsp>>

\* cancelArtifactInspection (lines 50-90). abort() makes the reply finish
\* with OperationCanceledError: the handler of the initial request reports it
\* as an error (lines 485-489), that of the download returns (612-616).
CancelArtifactInspection ==
    /\ activeInspectionReply # "none"
    /\ \E preserveForResume \in BOOLEAN :
          partialArtifactDownload' =
             IF preserveForResume /\ activeInspectionBytesWritten > 0
             THEN [isValid |-> TRUE,
                   bytesDownloaded |-> activeInspectionBytesWritten]
             ELSE [isValid |-> FALSE, bytesDownloaded |-> 0]
    /\ activeInspectionFile' = FALSE
    /\ activeInspectionBytesWritten' = 0
    /\ activeInspectionReply' = "none"
    /\ IF activeInspectionReply = "initial"
       THEN Emit(<<"error: Failed to inspect artifact",
                   "artifactInspectionCancelled">>)
       ELSE Emit(<<"artifactInspectionCancelled">>)
    /\ inspectionCancelled' = TRUE
    /\ UNCHANGED <<cachedZip, inspections, notInsp>>

NextInspect ==
    \/ InspectArtifactContents
    \/ InitialFinished
    \/ ReadyRead
    \/ DownloadFinished
    \/ CancelArtifactInspection

SpecInspect == InspInit /\ [][NextInspect]_vars

-----------------------------------------------------------------------------
(* Properties of the VSI session (specification Spec) *)

Emitted == RCat(deviceData, writeBuffer)

SuccessSignalled == "success" \in Range(outcomes)

\* C1: a local VSI session signals success only from the verification step,
\* and only if it was not cancelled there, nothing is left unflushed, the MD5
\* over the compressed bytes read equals the header's and the emitted total
\* equals header.uncompressedSize; when verification runs and one of the two
\* comparisons fails, exactly an error is reported and not success.
C1_SuccessOnlyWhenVerified ==
    [][ /\ (~SuccessSignalled /\ SuccessSignalled')
            => /\ pc = "verify" /\ ~cancelled
               /\ writeBufferUsed = 0
               /\ MD5(compressedRead) = header.md5
               /\ totalBytesWritten = header.uncompressedSize
        /\ (/\ pc = "verify" /\ pc' = "done" /\ ~cancelled
            /\ \/ MD5(compressedRead) # header.md5
               \/ totalBytesWritten # header.uncompressedSize)
            => /\ Len(outcomes') = Len(outcomes) + 1
               /\ outcomes'[Len(outcomes')] # "success"
               /\ ~SuccessSignalled' ]_vars

C1_Witness ==
    /\ pc = "done" /\ outcomes = <<"success">>
    /\ totalBytesWritten = header.uncompressedSize
    /\ Len(compressedRead) >= 2

\* C2: when the run has returned, exactly one terminal outcome was reported:
\* one success or one error, or none of them and the session was cancelled.
\* (Stated for the runs that stayed inside the accumulation buffer, so that a
\* violation does not rest on the overflow of C8.)
C2_ExactlyOneOutcome ==
    (pc = "done" /\ writeBufferUsed <= writeBufferCapacity)
        => \/ Len(outcomes) = 1
           \/ outcomes = <<>> /\ userCancel

\* C6: whenever every call of _processDecompressedData so far has returned
\* (no cancellation, no failure), the bytes emitted and the parser's position
\* are those of one single call over the concatenation of the chunks, and they
\* are the decoding of that stream block by block.
RECURSIVE DecodeBlocks(_, _)
DecodeBlocks(s, bs) ==
    IF s = <<>> THEN <<>>
    ELSE IF Head(s) = 0
    THEN RCat(<< <<0, bs>> >>, DecodeBlocks(Tail(s), bs))
    ELSE IF Head(s) = 1
    THEN RCat(RAppendBytes(<<>>, Take(Tail(s), bs)),
              DecodeBlocks(Drop(Tail(s), bs), bs))
    ELSE <<>>

OneCall == processAll(FreshParser, plainFed, header.blockSize, writeBufferCapacity)

C6_ChunkingIndependent ==
    (pc \in {"inflated", "loop", "inflate", "flush"} /\ ~cancelled)
        => /\ Emitted = RCat(OneCall.deviceData, OneCall.writeBuffer)
           /\ expectingDelimiter = OneCall.expectingDelimiter
           /\ bytesInCurrentBlock = OneCall.bytesInCurrentBlock
           /\ totalBytesWritten = OneCall.totalBytesWritten
           /\ Emitted = DecodeBlocks(plainFed, header.blockSize)
           /\ totalBytesWritten = RLen(Emitted)

C6_Witness ==
    /\ pc = "flush" /\ ~cancelled
    /\ splitInBlock = {"after-delimiter", "mid-block"}
    /\ expectingDelimiter
    /\ header.blockSize = 2
    /\ totalBytesWritten = 4

\* C7: an iteration of the parser that expects a delimiter, reads 0x00 and
\* goes on (the flush that makes room, if any, did not fail) emits exactly
\* blockSize zero bytes, advances the stream by the delimiter byte alone and
\* still expects a delimiter.
C7_SparseBlock ==
    [][ (/\ pc = "parse" /\ pc' # "done" /\ offset' # offset
         /\ expectingDelimiter /\ data[offset + 1] = 0)
            => /\ Emitted' = RAppend(Emitted, 0, header.blockSize)
               /\ totalBytesWritten' = totalBytesWritten + header.blockSize
               /\ offset' = offset + 1
               /\ expectingDelimiter'
               /\ bytesInCurrentBlock' = bytesInCurrentBlock ]_vars

C7_Witness ==
    /\ pc = "parse" /\ offset = 1 /\ data[1] = 0 /\ Len(data) = 3
    /\ Emitted = << <<1, 1>>, <<0, 1>> >>
    /\ header.blockSize = 1

\* C8: the bytes held in the accumulation buffer never exceed its capacity.
C8_BufferWithinCapacity ==
    writeBufferUsed <= writeBufferCapacity

-----------------------------------------------------------------------------
(* The archive download pipeline and its slot pool (SpecArchive) *)

InFlightSlots == { w.slot : w \in pending }

WorkerFills(i) == slot = i /\ pc \in {"s:read", "s:write"}

\* The owners of slot i: the pool while it is Free, the in-flight write while
\* its callback is due, the fill-side caller otherwise.
Owners(i) ==
    { o \in {"pool", "worker", "writer"} :
        \/ o = "pool" /\ slots[i].state = "Free"
        \/ o = "writer" /\ i \in InFlightSlots
        \/ o = "worker" /\ (WorkerFills(i) \/
                             (slots[i].state # "Free" /\ i \notin InFlightSlots)) }

\* C3: a slot handed to the DeviceWriter stays out of the pool, is not the
\* slot the worker is filling and keeps the chunk that was handed over until
\* its completion callback has released it; no slot has two writes in flight,
\* and every slot has exactly one owner.
C3_SlotOwnedByWriteInFlight ==
    /\ \A w \in pending :
         /\ slots[w.slot].state # "Free"
         /\ ~WorkerFills(w.slot)
         /\ slots[w.slot].chunk = w.chunk
    /\ \A w1, w2 \in pending : w1.slot = w2.slot => w1 = w2
    /\ \A i \in Slots : Cardinality(Owners(i)) = 1

\* every slot is in flight and the worker asks the pool for another one
C3_Witness ==
    /\ InFlightSlots = Slots
    /\ pc = "s:acquire"
    /\ producerStalls > 0
    /\ CompletedChunks # {}

RECURSIVE SumLen(_)
SumLen(log) ==
    IF log = <<>> THEN 0
    ELSE (IF log[1].accepted THEN log[1].len ELSE 0) + SumLen(Tail(log))

\* C4: an uncompressed entry's session signals success only if the bytes
\* handed to the DeviceWriter total the entry's declared size.
C4_SuccessOnlyWithDeclaredSize ==
    (SuccessSignalled /\ found /\ innerArchive = "none" /\ ~cancelled)
        => SumLen(writeLog) = entrySize

\* C5: write-complete is signalled if and only if the streaming loop was left
\* at the decoder's end of stream, and not when it was left on cancellation.
C5_CompleteIffEndOfStream ==
    /\ SuccessSignalled => endOfStream \in {"eof", "noprogress"}
    /\ (pc \in {"a:after", "done"} /\ endOfStream \in {"eof", "noprogress"})
           => SuccessSignalled

\* C9: the write calls carry the chunks in the order the decoder produced
\* them, none left out and none twice, and the decoder is asked for chunk k+1
\* only after the write call for chunk k has returned, whatever the order in
\* which the writes complete.
C9_WritesInProductionOrder ==
    /\ \A k \in DOMAIN writeLog : writeLog[k].chunk = k
    /\ IF pc = "s:write"
       THEN chunkNo = Len(writeLog) + 1
       ELSE chunkNo = Len(writeLog)

\* two writes have completed in the reverse of the order they were issued in
C9_Witness ==
    /\ Len(writeLog) >= 3
    /\ completedOutOfOrder

\* what is held outside the pool: the in-flight writes and the worker's slot
HeldOutside ==
    Cardinality(pending) + (IF \E i \in Slots : WorkerFills(i) THEN 1 ELSE 0)

\* C10: never more than NumSlots slots are held outside the pool, and an
\* acquireWriteSlot call made while none is Free returns no slot: the call
\* times out and is counted as a producer stall.
C10_AtMostNHeld ==
    /\ [](HeldOutside <= NumSlots)
    /\ [][ (pc = "s:acquire" /\ FreeSlots = {} /\ pc' # pc)
              => (slot' = 0 /\ pc' # "s:read") ]_vars
    /\ [][ (pc = "s:acquire" /\ pc' = "s:read")
              => (slot' \in FreeSlots /\ slots'[slot'].state # "Free") ]_vars

\* the pool is exhausted by in-flight writes, not cancelled, and a call has
\* timed out
C10_Witness ==
    /\ pc = "s:acquire"
    /\ Cardinality(pending) = NumSlots
    /\ FreeSlots = {}
    /\ ~poolCancelled
    /\ ~cancelled
    /\ producerStalls > 0

\* RingBuffer::isCancelled()
isCancelled == poolCancelled

\* C11: the pool's cancellation flag, once set, stays set and isCancelled()
\* reports it; an acquireWriteSlot call made while it is set returns no slot,
\* also when a slot is Free: the worker gets null, no slot changes state, and
\* the retry loop is left.
C11_PoolCancelIsFinal ==
    /\ [][ poolCancelled => (poolCancelled' /\ isCancelled') ]_vars
    /\ [][ (poolCancelled /\ pc = "s:acquire" /\ pc' # pc)
              => (slot' = 0 /\ slots' = slots
                  /\ pc' \in {"s:complete", "a:catch"}) ]_vars

\* a call made after the pool was cancelled has returned null although every
\* slot was Free, and the worker has thrown
C11_Witness ==
    /\ poolCancelled
    /\ ~cancelled
    /\ pc = "a:catch"
    /\ slot = 0
    /\ chunkNo = 0
    /\ producerStalls > 0
    /\ FreeSlots = Slots

\* C12: a null from acquireWriteSlot with no cancellation set leaves the
\* worker in its retry loop, and a worker that waits on a pool with no Free
\* slot gets a slot in the end, unless cancellation is set first, provided the
\* DeviceWriter calls the callback of every write it accepted.
C12_RetryUntilSlot ==
    /\ [][ (pc = "s:acquire" /\ FreeSlots = {} /\ ~cancelled /\ ~poolCancelled)
              => pc' = "s:acquire" ]_vars
    /\ (pc = "s:acquire" /\ FreeSlots = {})
           ~> (pc = "s:read" \/ cancelled \/ poolCancelled)

\* the worker has a slot again after a call timed out on a full pool, with no
\* cancellation anywhere
C12_Witness ==
    /\ pc = "s:read"
    /\ producerStalls > 0
    /\ Cardinality(pending) = NumSlots - 1
    /\ chunkNo = NumSlots
    /\ ~cancelled
    /\ ~poolCancelled

ErrorReported ==
    /\ Len(outcomes') = Len(outcomes) + 1
    /\ outcomes'[Len(outcomes')] # "success"

\* C13: once cancellation is set, by the session's flag or by the pool's, a
\* session that has found its entry reports no error: whatever fails from
\* then on (the inner decoder, a read, a slot acquisition, a write) ends the
\* session as cancelled.
C13_NoErrorAfterCancel ==
    [][ ((userCancel \/ poolCancelled) /\ found) => ~ErrorReported ]_vars

\* C14: once the session's cancellation flag is set the worker's run returns:
\* the VSI read loop, its inflate loop and the block parser's loop, the
\* archive streaming loops and their acquire retry loops all come to an end,
\* and an acquireWriteSlot call that returns null is not followed by another.
C14_CancelledRunReturns ==
    /\ cancelled ~> (pc = "done")
    /\ [][ (cancelled /\ pc = "s:acquire" /\ pc' = "s:acquire")
              => producerStalls' = producerStalls ]_vars

\* an archive session that was cancelled from outside while the worker was
\* waiting for a slot has returned
C14_Witness ==
    /\ pc = "done"
    /\ userCancel
    /\ endOfStream = "cancelled"
    /\ producerStalls > 0
    /\ FreeSlots = {}

RECURSIVE SumHanded(_)
SumHanded(log) ==
    IF log = <<>> THEN 0 ELSE log[1].len + SumHanded(Tail(log))

\* C15: only the final chunk of a stream is padded: when the decoder delivers
\* another data chunk, the bytes handed over before it are exactly the bytes
\* it had delivered before, and at the end of the stream the bytes handed
\* over are the bytes delivered plus fewer than 512 zero bytes, none if the
\* stream's length is a multiple of 512.
C15_PaddingOnlyOnFinalChunk ==
    /\ [][ (pc = "s:read" /\ pc' = "s:write")
              => SumHanded(writeLog) = produced ]_vars
    /\ [](endOfStream = "eof"
            => /\ SumHanded(writeLog) - produced \in 0..511
               /\ (produced % 512 = 0 => SumHanded(writeLog) = produced))

\* the path is the target, ends in "/" and the target, or has it as basename
NamesTarget(name) ==
    \/ name = targetEntry
    \/ /\ Len(name) > Len(targetEntry)
       /\ SubSeq(name, Len(name) - Len(targetEntry), Len(name))
              = <<"/">> \o targetEntry
    \/ LastSection(name) = targetEntry

\* C16: with a target name, the entry streamed is the first one, in the
\* container's order, that names the target; the entries before it hand no
\* byte to the DeviceWriter and no entry after it is looked at.
C16_FirstTargetMatchIsStreamed ==
    /\ [](targetEntry # <<>> =>
            /\ ~found => writeLog = <<>>
            /\ found =>
                 /\ entryIdx \in DOMAIN entries
                 /\ entryName = entries[entryIdx].name
                 /\ entrySize = entries[entryIdx].size
                 /\ NamesTarget(entryName)
                 /\ \A j \in 1..(entryIdx - 1) : ~NamesTarget(entries[j].name))
    /\ [][ found => (found' /\ entryIdx' = entryIdx /\ entryName' = entryName) ]_vars

\* an entry that has the target as basename was taken although a later entry
\* is the target exactly
C16_Witness ==
    /\ pc = "done"
    /\ found
    /\ targetEntry = Name_i_wic
    /\ entryName = Name_a_i_wic
    /\ \E j \in DOMAIN entries : j > entryIdx /\ entries[j].name = targetEntry
    /\ SuccessSignalled

CompressionSuffixes ==
    { <<".", "x", "z">>, <<".", "g", "z">>, <<".", "z", "s", "t">>,
      <<".", "b", "z", "2">>, <<".", "l", "z", "4">> }

\* the name ends in .wic, or in .wic and a compression suffix
HasImageSuffix(name) ==
    \/ EndsWith(toLower(name), <<".", "w", "i", "c">>)
    \/ \E x \in CompressionSuffixes :
         EndsWith(toLower(name), <<".", "w", "i", "c">> \o x)

\* C17: with no target name, the entry selected has an image suffix and is
\* the first entry of the container that has one.
C17_FirstImageIsSelected ==
    (targetEntry = <<>> /\ found) =>
        /\ HasImageSuffix(entryName)
        /\ entryName = entries[entryIdx].name
        /\ \A j \in 1..(entryIdx - 1) : ~HasImageSuffix(entries[j].name)

NotFoundMessages == {"No WIC image found in archive", "Entry not found in archive"}

\* C18: the entry-not-found error is reported only after every header of the
\* container has been read and none matched; when the headers cannot be read
\* to the end the message is another one; neither case hands a byte to the
\* DeviceWriter or signals write-complete.
C18_NotFoundOnlyAtEndOfContainer ==
    /\ [][ (ErrorReported /\ outcomes'[Len(outcomes')] \in NotFoundMessages)
              => /\ entryIdx = Len(entries)
                 /\ \A j \in DOMAIN entries :
                        ~matches(entries[j].name, targetEntry) ]_vars
    /\ [](~found => (writeLog = <<>> /\ ~SuccessSignalled))

\* C19: when the block parser expects a delimiter and the next byte is
\* neither 0x00 nor 0x01, that iteration reports the format error and ends
\* the session with nothing more emitted; the error is the session's only
\* outcome, and no step follows it.
C19_BadDelimiterIsFatal ==
    /\ [][ (/\ pc = "parse" /\ ~cancelled /\ expectingDelimiter
            /\ offset < Len(data) /\ data[offset + 1] \notin {0, 1}
            /\ (pc' # pc \/ offset' # offset))
              => /\ pc' = "done"
                 /\ outcomes' = Append(outcomes, "Invalid VSI data format")
                 /\ Emitted' = Emitted ]_vars
    /\ []("Invalid VSI data format" \in Range(outcomes)
            => (outcomes = <<"Invalid VSI data format">> /\ pc = "done"))
    /\ [][ "Invalid VSI data format" \notin Range(outcomes) ]_vars

\* a stream whose first blocks were taken and whose next delimiter is invalid
C19_Witness ==
    /\ outcomes = <<"Invalid VSI data format">>
    /\ totalBytesWritten > 0
    /\ ~userCancel

\* 128 bytes read, magic VSI1, 0 < blockSize <= 64 MiB, uncompressedSize > 0
HeaderIsAcceptable(h) ==
    /\ h.readLen = 128
    /\ h.magic = "VSI1"
    /\ 0 < h.blockSize /\ h.blockSize <= 64 * MiB
    /\ 0 < h.uncompressedSize

\* C20: the header read from an opened file is accepted exactly when it is
\* acceptable; a rejected header ends the session with the format error as
\* its only outcome, the decompressor not initialized and no byte buffered or
\* handed to the DeviceWriter.
C20_HeaderAcceptedIffValid ==
    /\ [][ (pc = "open" /\ header' # header)
              => /\ HeaderIsAcceptable(header') <=> pc' = "prepare"
                 /\ ~HeaderIsAcceptable(header')
                      => /\ pc' = "done"
                         /\ outcomes' = <<"Invalid VSI file format">> ]_vars
    /\ []("Invalid VSI file format" \in Range(outcomes)
            => /\ pc = "done"
               /\ ~HeaderIsAcceptable(header)
               /\ outcomes = <<"Invalid VSI file format">>
               /\ ~zlibInitialized
               /\ Emitted = <<>>
               /\ totalBytesWritten = 0)

\* a header whose block size is one byte above the limit has been rejected
C20_Witness ==
    /\ pc = "done"
    /\ outcomes = <<"Invalid VSI file format">>
    /\ header.blockSize = MaxBlockSize + 1
    /\ header.magic = "VSI1"

-----------------------------------------------------------------------------
(* The VSI codec, continued (Spec) *)

\* The bytes a compressed payload inflates to, up to its end marker
RECURSIVE Inflated(_)
Inflated(f) ==
    IF f = <<>> \/ Head(f)[1] # "run" THEN <<>>
    ELSE Repeat(Head(f)[2], Head(f)[3]) \o Inflated(Tail(f))

\* The payload is a deflate stream that ends with its end marker and inflates
\* to whole blocks of header.blockSize that total header.uncompressedSize.
PayloadIsValid ==
    /\ file # <<>>
    /\ file[Len(file)][1] = "end"
    /\ \A i \in 1..(Len(file) - 1) : file[i][1] = "run"
    /\ LET q == processAll(FreshParser, Inflated(file), header.blockSize,
                           header.uncompressedSize + 1)
       IN  /\ q.status = "run"
           /\ q.expectingDelimiter
           /\ q.totalBytesWritten = header.uncompressedSize

\* Failures of the environment (file system, device, memory), not of the file
IoErrors ==
    { "Error opening VSI file", "Error reading VSI file",
      "Error writing final data to device",
      "Failed to allocate write buffer", "Failed to allocate zero block",
      "Failed to initialize decompressor" }

\* C21: in a session over a valid payload whose header carries a wrong MD5,
\* an error that is not a failure of the environment is the checksum error, and it is
\* reported by the verification step with the whole stream read, the buffer
\* empty and all header.uncompressedSize bytes handed to the DeviceWriter.
C21_ChecksumErrorAfterFullDecode ==
    [][ (/\ ErrorReported
         /\ header.md5 = CorruptMd5
         /\ PayloadIsValid
         /\ outcomes'[Len(outcomes')] \notin IoErrors)
           => /\ outcomes'[Len(outcomes')] = "VSI file checksum verification failed"
              /\ pc = "verify"
              /\ finished
              /\ filePos = Len(file)
              /\ writeBufferUsed = 0
              /\ totalBytesWritten = header.uncompressedSize
              /\ RLen(deviceData) = header.uncompressedSize ]_vars

\* a two-block payload was written out in full and then failed the checksum
C21_Witness ==
    /\ pc = "done"
    /\ outcomes = <<"VSI file checksum verification failed">>
    /\ header.md5 = CorruptMd5
    /\ PayloadIsValid
    /\ header.blockSize = 2
    /\ RLen(deviceData) = 4

IntegrityErrors ==
    { "VSI file checksum verification failed", "VSI extraction size mismatch" }

\* C22: an integrity error (checksum or size mismatch) is reported only when
\* every byte of the compressed input has been read.
C22_IntegrityErrorAfterAllInput ==
    [][ (ErrorReported /\ outcomes'[Len(outcomes')] \in IntegrityErrors)
           => filePos = Len(file) ]_vars

\* C23: when a VSI session signals success, the accumulation buffer is empty
\* and the bytes written to the device total header.uncompressedSize, which
\* is also what the emitted-byte counter says.
C23_SuccessMeansAllWritten ==
    [][ (~SuccessSignalled /\ SuccessSignalled' /\ pc = "verify")
           => /\ writeBufferUsed' = 0
              /\ writeBuffer' = <<>>
              /\ RLen(deviceData') = header.uncompressedSize
              /\ totalBytesWritten' = RLen(deviceData') ]_vars

\* two blocks, a sparse one and a data one, were written and verified
C23_Witness ==
    /\ pc = "done"
    /\ outcomes = <<"success">>
    /\ header.blockSize = 2
    /\ header.uncompressedSize = 4
    /\ Len(deviceData) = 2
    /\ writeBufferUsed = 0

-----------------------------------------------------------------------------
(* The archive pipeline, continued (SpecArchive) *)

\* C24: a negative read result gives the slot back; the no-progress condition
\* then ends the stream as its end does (write-complete is signalled and no
\* error is reported), and every other negative result is thrown and, in a
\* session that is not cancelled, reported as an error.
C24_NoProgressIsEndOfStream ==
    /\ [][ (pc = "s:read" /\ size' < 0)
             => /\ slots'[slot].state = "Free"
                /\ outcomes' = outcomes
                /\ IF size' = ARCHIVE_FATAL /\ endOfStream' = "noprogress"
                   THEN pc' = "s:complete"
                   ELSE pc' = "a:catch" /\ endOfStream' = endOfStream ]_vars
    /\ [][ (pc = "s:complete" /\ endOfStream = "noprogress" /\ pc' # pc)
             => outcomes' = Append(outcomes, "success") ]_vars
    /\ [][ (pc = "a:catch" /\ size < 0 /\ ~cancelled /\ pc' # pc)
             => ErrorReported /\ ~SuccessSignalled' ]_vars
    /\ []((pc = "done" /\ endOfStream = "noprogress" /\ ~cancelled)
             => outcomes = <<"success">>)

\* a stream that ended with the no-progress condition after one chunk
C24_Witness ==
    /\ pc = "done"
    /\ endOfStream = "noprogress"
    /\ size = ARCHIVE_FATAL
    /\ outcomes = <<"success">>
    /\ chunkNo = 1
    /\ FreeSlots = Slots

-----------------------------------------------------------------------------
(* The container-entry device (SpecEntryDevice) *)

\* C25: a read of an open device whose entry is exhausted returns 0, and a
\* read returns -1 only if archive_read_data failed, the device is closed or
\* it has no entry.
C25_ReadAtEndReturnsZero ==
    [][ (devOp' = "read" /\ devArchive /\ devEntryFound /\ ~devLibError')
           => /\ devResult' >= 0
              /\ (devBytesRead = devEntrySize => devResult' = 0) ]_vars

-----------------------------------------------------------------------------
(* Teardown of a VSI session (SpecTeardown) *)

\* C26: the destructor has freed or reset the accumulation buffer, the
\* zero-fill block or the inflate state only if the worker thread has
\* finished.
C26_TeardownWaitsForWorker ==
    dtorFreed # {} => pc = "done"

-----------------------------------------------------------------------------
(* A VSI session on either kind of URL (SpecRun) *)

\* C27: whichever source feeds the session, success is signalled only after
\* the 128-byte header was read and found acceptable, the blocks were
\* reconstructed up to header.uncompressedSize bytes and the MD5 over the
\* payload read equals the header's.
C27_NetworkDecodesAsLocal ==
    SuccessSignalled
        => /\ header.readLen = VSI_HEADER_SIZE
           /\ HeaderIsAcceptable(header)
           /\ MD5(compressedRead) = header.md5
           /\ totalBytesWritten = header.uncompressedSize
           /\ RLen(deviceData) = header.uncompressedSize

-----------------------------------------------------------------------------
(* The SPU copy (SpecSpu) *)

\* the calls of the log that succeeded, in call order
RECURSIVE OkCalls(_)
OkCalls(log) ==
    IF log = <<>> THEN <<>>
    ELSE (IF log[1].ok THEN <<log[1].op>> ELSE <<>>) \o OkCalls(Tail(log))

\* C28: a run that has ended and had mounted the drive has called unmount
\* after the mount, as its last call; success() is emitted only as the single
\* signal of a run whose calls were format (unless skipped), mount, copy and
\* unmount, in that order and all successful.
C28_UnmountOnEveryPath ==
    /\ (spuPc \in {"done", "crashed"}
          /\ \E i \in DOMAIN spuLog : spuLog[i].op = "mount" /\ spuLog[i].ok)
          => /\ spuLog[Len(spuLog)].op = "unmount"
             /\ Cardinality({ i \in DOMAIN spuLog : spuLog[i].op = "unmount" }) = 1
    /\ ("success" \in Range(spuSignals))
          => /\ spuSignals = <<"success">>
             /\ spuPc = "done"
             /\ OkCalls(spuLog) =
                   (IF spuSkipFormat THEN <<>> ELSE <<"format">>)
                       \o <<"mount", CopyMethod, "unmount">>
             /\ Len(OkCalls(spuLog)) = Len(spuLog)

-----------------------------------------------------------------------------
(* The archive pipeline: resources (SpecArchive) *)

\* C29: when the session has ended and every accepted write has had its
\* callback, every slot of the pool is Free.
C29_NoSlotLeaked ==
    (pc = "done" /\ pending = {}) => FreeSlots = Slots

\* C30: when the session of a compressed entry has ended, the inner decoder
\* handle and the bridging buffer that is allocated and freed with it have
\* been freed.
C30_InnerDecoderFreedOnEveryExit ==
    pc = "done" => innerArchive \in {"none", "freed"}

-----------------------------------------------------------------------------
(* The VSI codec: the end of the stream (Spec) *)

\* C31: a VSI session signals success only if the block parser expects a
\* delimiter at that moment: no data block is left unfinished.
C31_SuccessOnlyAtBlockBoundary ==
    [][ (~SuccessSignalled /\ SuccessSignalled' /\ pc = "verify")
           => expectingDelimiter /\ bytesInCurrentBlock = 0 ]_vars

\* C32: the length handed to the DeviceWriter, the read result rounded up to
\* a multiple of 512, does not exceed the slot capacity, whatever capacity
\* the caller chose.
C32_PaddingInsideSlot ==
    [][ (pc = "s:read" /\ size' > 0) => size' <= slotCapacity ]_vars

-----------------------------------------------------------------------------
(* Teardown of an archive-entry session (SpecEntryThread) *)

\* C33: the owner's thread has closed or deleted the archive-entry reader
\* only if the worker thread has finished.
C33_ReaderOutlivesWorker ==
    ({"closed", "deleted"} \cap dtorFreed # {}) => pc = "done"

-----------------------------------------------------------------------------
(* GitHub authentication (SpecAuth) *)

\* C34: from cancelAuth() until the next startDeviceFlow() or
\* loadStoredToken() the state is Idle, nothing is authenticated and the poll
\* timer is stopped, whatever replies of the cancelled attempt arrive.
C34_CancelledStaysIdle ==
    authCancelled => authState = "Idle" /\ ~isAuthenticated /\ ~pollTimer

-----------------------------------------------------------------------------
(* The drive poll thread (SpecPoll, SpecPollLive) *)

\* The first half of C35, under SpecPollLive: a refresh requested of a thread
\* that is not stopped is followed by the start of a scan (or by the scan
\* budget of the model being used up).
RefreshIsServed ==
    refreshOutstanding ~> (~refreshOutstanding \/ terminate \/ scans = MaxScans)

\* C35: a refresh request is never lost, and a scan starts only when the
\* mode is not Paused or a refresh has been requested and not yet served.
C35_NoScanWhilePaused ==
    [][ (pollPc # "scan" /\ pollPc' = "scan")
          => (scanMode # "Paused" \/ refreshOutstanding) ]_vars

-----------------------------------------------------------------------------
(* Refresh of the image sources (SpecRepo, SpecRepoLive) *)

\* The second half of C37, under SpecRepoLive: when every request finishes,
\* a refresh ends with isLoading false.
LoadingEnds == refreshStarted ~> ~isLoading

\* C37: after refreshAllSources() isLoading is false, and osListReady has
\* been emitted, only when the CDN request and both searches of every
\* enabled repository have delivered a result or an error.
C37_ReadyOnlyWhenAllDelivered ==
    (refreshStarted /\ (~isLoading \/ osListReady > 0))
        => Counted \subseteq { <<d[1], d[2]>> : d \in delivered }

-----------------------------------------------------------------------------
(* Inspection of a CI artifact (SpecInspect) *)

\* C38: an inspection that was cancelled while its download was active
\* reports artifactInspectionCancelled and nothing else.
C38_CancelledIsTheOnlyOutcome ==
    inspectionCancelled => inspectionSignals = <<"artifactInspectionCancelled">>

-----------------------------------------------------------------------------
(* The inner decoder's handle when it cannot be opened (SpecArchive) *)

\* C39: when the text of the open failure is obtained from the inner
\* decoder's handle, the handle has not been freed.
C39_ErrorTextFromLiveHandle ==
    pc = "x:throw" => innerArchive = "open"

-----------------------------------------------------------------------------
(* Signals of an SPU copy (SpecSpu) *)

\* C36: a run of SPUCopyThread that has returned has emitted exactly one
\* terminal signal, one success() or one error().
C36_OneTerminalSignal ==
    spuPc = "done" => Len(spuSignals) = 1


\* C40: every copy buffer that extractAndCopy allocated has been released
\* exactly once when the copy has returned.
C40_BufferReleasedOnce ==
    copyBuffer.deleted = copyBuffer.allocated

====
